---- MODULE Spec2Model ----
(***************************************************************************)
(* SkillSync (yashc73080/hackruf25): the role-matching engine and the      *)
(* Next.js client that drives it.                                          *)
(*                                                                         *)
(* The matching engine itself (teamskills/backend/role_matcher.py and the  *)
(* embedding helper) is not among the source files; its operators follow   *)
(* the design document (sections 4.2, 4.5, 4.6, 5, 6 and 7).  The client   *)
(* (page orchestrator, planning chat, team form, RoleMatchResults) follows *)
(* its source.                                                             *)
(***************************************************************************)
EXTENDS Integers, Sequences, FiniteSets, TLC

(***************************************************************************)
(* Bounds of the model.                                                    *)
(***************************************************************************)
MaxRoles == 3
MaxMembers == 3

\* Similarity scores are floats in the program; only their order matters to
\* the solver, so a small totally ordered set stands for them.
Scores == {0, 1}

VARIABLES
    \* ---- engine: one match computation (assign + build_reports) ----
    nRoles,        \* number of roles of the request (roles are 1..nRoles, in input order)
    nMembers,      \* number of members of the request (1..nMembers, in input order)
    matrix,        \* the (amplified) similarity matrix: [role -> [member -> score]]
    unR,           \* roles not yet assigned
    unM,           \* members not yet assigned
    assignment,    \* committed pairs <<role, member>>
    lastPick,      \* what the last loop iteration committed, and from which sets
    run,           \* 1 = first run of the operation, 2 = the repeated run
    firstResult,   \* the assignment the first run returned
    reports,       \* build_reports output: [role -> sequence of candidates]
    epc,           \* position of the engine
    \* ---- results view (RoleMatchResults) ----
    roles,         \* the roles prop: sequence of role records, in request order
    assignmentsProp, \* the assignments prop: role title -> member name
    reportsProp,   \* the reports prop: sequence of reports, each naming its role title
    debugProp,     \* the matchDebug prop, as far as the view reads it
    rows,          \* what each role row shows
    vpc,           \* position of the view
    \* ---- page orchestrator (Home) and its children's pending work ----
    currentPhase,
    finalSpecifications,  \* 0 = null, k = the specifications of extraction k
    finalMembers,         \* [of |-> submission, n |-> how many members]; NoMembers = []
    finalRoles,           \* [of |-> submission, n |-> how many roles]; NoRoles = []
    planningDirty,
    specsReady,
    teamDirty,
    teamReady,
    roleAssignments,      \* 0 = {}, k = the assignments of match request k
    roleReports,          \* 0 = [], k = the reports of match request k
    matchDebug,           \* 0 = null, k = the debug payload of match request k
    topK,
    chatLoading,          \* ProjectPlanningChat.isLoading
    extractions,          \* /api/extract-specifications requests in flight
    nExtractions,         \* extraction requests issued so far
    formDirty,            \* TeamInputForm.isDirty
    derivedRoles,         \* TeamInputForm.derivedRoles, a roles value as finalRoles
    teamSize,             \* TeamInputForm.teamMembers.length
    incomplete,           \* how many of teamMembers lack a name or a resume file
    teamLog,              \* history: responses, cleanups and notifications so far
    submission,           \* TeamInputForm.handleSubmit in flight, or NoSubmission
    nSubmissions,         \* submissions started so far
    matchRequests,        \* /api/match-roles requests in flight
    nMatchRequests,       \* match requests issued so far
    timers,               \* pending setTimeout(..., 0) callbacks
    partialReturned,      \* history: an answer to failed embeddings carried results
    lastGood,             \* history: data of the last successful match response, or 0
    \* ---- match service: validation and the embedding provider's cache ----
    config,        \* [request -> its tuning input]
    needs,         \* [request -> the content hashes of the texts it must embed]
    stage,         \* [request -> "new", "rejected", "embedding", "matched" or "failed"]
    issued,        \* [request -> the hashes it has called embed for]
    results,       \* [request -> what its embed calls returned]
    embedCache,    \* the persistent cache: entries [hash, fetch]
    fetches,       \* upstream fetches in flight: [hash, id, attempts]
    nFetches,      \* upstream fetches started so far
    waiters,       \* embed calls awaiting a fetch: [request, hash, fetch]
    \* ---- domain amplifier: one call of amplify ----
    ampArgs,       \* the arguments of the call
    ampResult,     \* the matrix it returned
    apc,           \* position of the call
    \* ---- API routes: one request to a route handler ----
    routeCall,     \* the route, its request and what its collaborators do
    routeResponse, \* the response the handler returned
    rpc,           \* position of the handler
    \* ---- planning chat (ProjectPlanningChat) with its transcript ----
    messages,      \* the transcript: sequence of [role, content]
    chatCalls,     \* fetches in flight: [api, messages], messages being the body sent
    extractedFrom, \* history: the transcript finalSpecifications was extracted from
    \* ---- resume cache (.cache/resumes) with its two routes and their callers ----
    dirExists,     \* whether the directory .cache/resumes exists
    stored,        \* [file name in the directory -> the upload that wrote it]
    now,           \* Date.now()
    diskCalls,     \* requests to upload-resume and cleanup-resumes being handled
    nDiskCalls,    \* requests received so far
    active,        \* the clients (browser tabs) that are open
    forms,         \* [client -> its teamMembers: member -> name, resumeFile, resumePath]
    subs,          \* [client -> its handleSubmit in flight]
    nResumeSubs,   \* [client -> submissions started]
    epochs,        \* history: [client -> cleanups it has awaited]
    cleanupLog     \* history: responses of cleanup calls made outside a submission

engineVars == <<nRoles, nMembers, matrix, unR, unM, assignment, lastPick,
                run, firstResult, reports, epc>>

viewVars == <<roles, assignmentsProp, reportsProp, debugProp, rows, vpc>>

homeVars == <<currentPhase, finalSpecifications, finalMembers, finalRoles,
              planningDirty, specsReady, teamDirty, teamReady,
              roleAssignments, roleReports, matchDebug, topK>>

pendingVars == <<chatLoading, extractions, nExtractions, formDirty, derivedRoles,
                 teamSize, incomplete, teamLog,
                 submission, nSubmissions, matchRequests, nMatchRequests, timers,
                 partialReturned, lastGood>>

clientVars == <<homeVars, pendingVars>>

serviceVars == <<config, needs, stage, issued, results, embedCache, fetches,
                 nFetches, waiters>>

amplifyVars == <<ampArgs, ampResult, apc>>

routeVars == <<routeCall, routeResponse, rpc>>

transcriptVars == <<messages, chatCalls, extractedFrom>>

diskVars == <<dirExists, stored, now, diskCalls, nDiskCalls, active, forms, subs,
              nResumeSubs, epochs, cleanupLog>>

auxVars == <<amplifyVars, routeVars, transcriptVars, diskVars>>

nonEngineVars == <<viewVars, clientVars, serviceVars, auxVars>>

vars == <<engineVars, viewVars, clientVars, serviceVars, auxVars>>

NoPick == [role |-> 0, member |-> 0, fromR |-> {}, fromM |-> {}]

(***************************************************************************)
(* Assignment Solver (design section 4.5)                                  *)
(***************************************************************************)

\* The highest score left among the still-unassigned (role, member) pairs.
MaxRemaining(mx, R, M) ==
    CHOOSE s \in {mx[r][m] : r \in R, m \in M} :
        \A r \in R, m \in M : mx[r][m] <= s

\* Among pairs of equal score: first by role order, then by member order.
FirstInOrder(P) ==
    {p \in P : \A q \in P : p[1] < q[1] \/ (p[1] = q[1] /\ p[2] <= q[2])}

BestPairs_NoTieBreak(mx, R, M) ==
    {p \in R \X M : mx[p[1]][p[2]] = MaxRemaining(mx, R, M)}

BestPairs_Lowest(mx, R, M) ==
    FirstInOrder({p \in R \X M : \A r \in R, m \in M : mx[p[1]][p[2]] <= mx[r][m]})

BestPairs_MemberFirst(mx, R, M) ==
    LET P == {p \in R \X M : mx[p[1]][p[2]] = MaxRemaining(mx, R, M)}
    IN  {p \in P : \A q \in P : p[2] < q[2] \/ (p[2] = q[2] /\ p[1] <= q[1])}

\* The pairs the greedy step may commit: the single highest remaining score,
\* ties broken by role order and then member order.
BestPairs(mx, R, M) ==
    FirstInOrder({p \in R \X M : mx[p[1]][p[2]] = MaxRemaining(mx, R, M)})

RemainingMembers_Kept(M, p) == M

\* "remove both the role and member from further consideration"
RemainingRoles(R, p) == R \ {p[1]}
RemainingMembers(M, p) == M \ {p[2]}

\* "repeat until either set is exhausted"
LoopContinues(R, M, asg) == R # {} /\ M # {}

(***************************************************************************)
(* Report Builder (design section 4.6)                                     *)
(***************************************************************************)

\* softmax_temperature in tenths: "defaults to a mid value such as 0.6".
DefaultTemperature == 6

\* exp(1 / t) to the nearest integer, for a temperature t in tenths: e^(1/0.6)
\* is about 5, e about 3; a lower temperature gives a larger base.
ExpBase(t) == IF t < 10 THEN 5 ELSE 3

RECURSIVE Pow(_, _)
Pow(b, k) == IF k = 0 THEN 1 ELSE b * Pow(b, k - 1)

RECURSIVE SumOver(_, _)
SumOver(f, S) ==
    IF S = {} THEN 0
    ELSE LET x == CHOOSE y \in S : TRUE IN f[x] + SumOver(f, S \ {x})

\* exp(score / t) up to a factor common to the row: the base raised to the
\* score's distance from the lowest score of the row.
ExpWeights(row, M, t) ==
    LET lo == CHOOSE v \in {row[m] : m \in M} : \A k \in M : v <= row[k]
    IN  [m \in M |-> Pow(ExpBase(t), row[m] - lo)]

\* The softmax distribution of one role's scores, as fractions num / den.
Softmax(row, M, t) ==
    LET w == ExpWeights(row, M, t)
        total == SumOver(w, M)
    IN  [m \in M |-> [num |-> w[m], den |-> total]]

\* a < b for fractions with positive denominators.
FracLess(a, b) == a.num * b.den < b.num * a.den

\* Candidates highest soft score first; equal soft scores keep input order.
RECURSIVE SortedBySoft(_, _, _)
SortedBySoft(row, soft, M) ==
    IF M = {} THEN <<>>
    ELSE LET best == CHOOSE m \in M :
                        \A k \in M : FracLess(soft[k], soft[m])
                                     \/ (~FracLess(soft[m], soft[k]) /\ m <= k)
         IN  <<[member |-> best, score |-> row[best], soft_score |-> soft[best]]>>
             \o SortedBySoft(row, soft, M \ {best})

\* "convert the full vector of scores for that role into a softmax
\* distribution ..., sort candidates descending by the softmax score, and
\* attach the raw (pre-softmax) boosted score alongside it"
SortedByScore(row, M) ==
    IF M = {} THEN <<>>
    ELSE SortedBySoft(row, Softmax(row, M, DefaultTemperature), M)

IsAssigned(asg, r) == \E p \in asg : p[1] = r

Candidates_AssignedOnly(mx, r, nM, asg) ==
    IF IsAssigned(asg, r) THEN SortedByScore(mx[r], 1..nM) ELSE <<>>

\* "For each role, collect every member's boosted score"
Candidates(mx, r, nM, asg) == SortedByScore(mx[r], 1..nM)

\* The winning member of a role, 0 when the role got none.
Winner(asg, r) ==
    IF IsAssigned(asg, r) THEN (CHOOSE p \in asg : p[1] = r)[2] ELSE 0

BuildReports(mx, nR, nM, asg) ==
    [r \in 1..nR |-> [role       |-> r,
                      candidates |-> Candidates(mx, r, nM, asg),
                      winner     |-> Winner(asg, r)]]

(***************************************************************************)
(* The engine as a state machine: the greedy loop one iteration at a time, *)
(* then the reports; the operation is then run a second time on the same   *)
(* inputs.                                                                 *)
(***************************************************************************)
EngineInit(maxR, maxM) ==
    /\ nRoles \in 0..maxR
    /\ nMembers \in 0..maxM
    /\ matrix \in [1..nRoles -> [1..nMembers -> Scores]]
    /\ unR = 1..nRoles
    /\ unM = 1..nMembers
    /\ assignment = {}
    /\ lastPick = NoPick
    /\ run = 1
    /\ firstResult = {}
    /\ reports = <<>>
    /\ epc = "assign"

\* One iteration of the greedy loop: pick, commit, remove.
AssignStep ==
    /\ epc = "assign"
    /\ UNCHANGED nonEngineVars
    /\ LoopContinues(unR, unM, assignment)
    /\ \E p \in BestPairs(matrix, unR, unM) :
          /\ assignment' = assignment \cup {p}
          /\ unR' = RemainingRoles(unR, p)
          /\ unM' = RemainingMembers(unM, p)
          /\ lastPick' = [role |-> p[1], member |-> p[2], fromR |-> unR, fromM |-> unM]
    /\ UNCHANGED <<nRoles, nMembers, matrix, run, firstResult, reports, epc>>

\* The loop ends and assign returns.
AssignReturn ==
    /\ epc = "assign"
    /\ UNCHANGED nonEngineVars
    /\ ~LoopContinues(unR, unM, assignment)
    /\ epc' = "report"
    /\ UNCHANGED <<nRoles, nMembers, matrix, unR, unM, assignment, lastPick,
                   run, firstResult, reports>>

BuildReportsStep ==
    /\ epc = "report"
    /\ UNCHANGED nonEngineVars
    /\ reports' = BuildReports(matrix, nRoles, nMembers, assignment)
    /\ epc' = "returned"
    /\ UNCHANGED <<nRoles, nMembers, matrix, unR, unM, assignment, lastPick,
                   run, firstResult>>

\* The same request is matched again; nothing persists between requests.
RunAgain ==
    /\ epc = "returned"
    /\ UNCHANGED nonEngineVars
    /\ run = 1
    /\ run' = 2
    /\ firstResult' = assignment
    /\ unR' = 1..nRoles
    /\ unM' = 1..nMembers
    /\ assignment' = {}
    /\ lastPick' = NoPick
    /\ reports' = <<>>
    /\ epc' = "assign"
    /\ UNCHANGED <<nRoles, nMembers, matrix>>


(***************************************************************************)
(* The match response (design section 6) and the results view              *)
(* (components/RoleMatchResults.jsx)                                       *)
(***************************************************************************)
MaxViewRoles == 3
MaxViewMembers == 2
MaxRowRoles == 1
MaxRowMembers == 2

\* Role titles a request may carry; two roles may carry the same title.
Titles == {"A", "B"}

\* member.name of the member at a position of the request.
NameOf(m) == <<"Ann", "Bob", "Cy", "Dee", "Eve">>[m]

\* `Role ${i + 1}`, for the 1-based position i + 1.
RoleLabel(i) == <<"Role 1", "Role 2", "Role 3", "Role 4", "Role 5">>[i]

\* What obj?.[key] yields for a missing key.
Undefined == "<undefined>"

Falsy(v) == v = Undefined \/ v = ""

\* The response's assignments object is keyed by role title: each title of an
\* assigned role maps to the member of an assigned role of that title.
TitleKeyedMaps(asg, rl) ==
    LET T == {rl[p[1]].title : p \in asg}
    IN  {f \in [T -> {NameOf(p[2]) : p \in asg}] :
            \A t \in T : \E p \in asg : rl[p[1]].title = t /\ f[t] = NameOf(p[2])}

\* A candidate's soft_score, when the report carries one.
SoftScore(q) == [present |-> TRUE, num |-> q.num, den |-> q.den]
NoSoftScore == [present |-> FALSE, num |-> 0, den |-> 1]

\* The response's debug payload: the softmax temperature that was used.
DebugOf(t) == [defined |-> TRUE, softmax_temperature |-> t]
NoDebug == [defined |-> FALSE, softmax_temperature |-> 0]

\* The response's reports, one per role in request order, naming role and
\* members by title and name.
ReportsByTitle(rep, rl) ==
    [r \in DOMAIN rep |->
        [role       |-> rl[r].title,
         candidates |-> [i \in DOMAIN rep[r].candidates |->
                            [member     |-> NameOf(rep[r].candidates[i].member),
                             score      |-> rep[r].candidates[i].score,
                             soft_score |-> SoftScore(rep[r].candidates[i].soft_score)]],
         winner     |-> IF rep[r].winner = 0 THEN Undefined
                        ELSE NameOf(rep[r].winner)]]

\* roles.map((r, i) => r?.title || r?.name || `Role ${i + 1}`)
RoleTitles(rl) ==
    [i \in DOMAIN rl |->
        IF ~Falsy(rl[i].title) THEN rl[i].title
        ELSE IF ~Falsy(rl[i].name) THEN rl[i].name
        ELSE RoleLabel(i)]

\* const person = assignments?.[title]
PersonOf(asgs, title) ==
    IF title \in DOMAIN asgs THEN asgs[title] ELSE Undefined

\* {person || 'Unassigned'}
AssignedToLine(person) == IF Falsy(person) THEN "Unassigned" ELSE person

\* reports.find(r => r.role === title): position of the first such report, 0 if none.
FindReport(reps, title) ==
    IF \E k \in DOMAIN reps : reps[k].role = title
    THEN CHOOSE k \in DOMAIN reps :
            /\ reps[k].role = title
            /\ \A j \in DOMAIN reps : reps[j].role = title => k <= j
    ELSE 0

\* (matchDebug?.softmax_temperature) ?? 0.6, in tenths
TemperatureOf(debug) ==
    IF debug.defined THEN debug.softmax_temperature ELSE DefaultTemperature

SoftmaxClient_Unnormalised(arr, t) ==
    IF arr = <<>> THEN <<>> ELSE
    LET w == ExpWeights(arr, DOMAIN arr, IF t = 0 THEN 10 ELSE t)
    IN  [i \in DOMAIN arr |->
            [num |-> w[i],
             den |-> CHOOSE v \in {w[k] : k \in DOMAIN arr} :
                        \A k \in DOMAIN arr : w[k] <= v]]

\* softmax(arr, t): exp((x - max) / (t || 1)) over its sum, [] for no scores.
SoftmaxClient(arr, t) ==
    IF arr = <<>> THEN <<>>
    ELSE LET w == ExpWeights(arr, DOMAIN arr, IF t = 0 THEN 10 ELSE t)
         IN  [i \in DOMAIN arr |-> [num |-> w[i], den |-> SumOver(w, DOMAIN arr)]]

\* soft: the candidate's soft_score if it has one, else the client softmax of
\* the raw scores at its position.
Soft(candidates, t) ==
    LET rawScores == [i \in DOMAIN candidates |-> candidates[i].score]
    IN  [i \in DOMAIN candidates |->
            IF candidates[i].soft_score.present
            THEN [num |-> candidates[i].soft_score.num,
                  den |-> candidates[i].soft_score.den]
            ELSE SoftmaxClient(rawScores, t)[i]]

RECURSIVE SortRows_Unsorted(_, _)
RECURSIVE SortRows(_, _)
SortRows_Unsorted(cs, I) ==
    IF I = {} THEN <<>>
    ELSE LET first == CHOOSE i \in I : \A k \in I : i <= k
         IN  <<cs[first]>> \o SortRows_Unsorted(cs, I \ {first})

\* .sort((a, b) => b._soft - a._soft) over the positions I of cs: highest
\* _soft first, equal _soft in their original order (the sort is stable).
SortRows(cs, I) ==
    IF I = {} THEN <<>>
    ELSE LET first == CHOOSE i \in I :
                        \A k \in I : FracLess(cs[k]._soft, cs[i]._soft)
                                     \/ (~FracLess(cs[i]._soft, cs[k]._soft) /\ i <= k)
         IN  <<cs[first]>> \o SortRows(cs, I \ {first})

\* rows: the candidates with their _soft, sorted; pos is the position the
\* candidate had in the report.
CandidateRows(candidates, t) ==
    LET soft == Soft(candidates, t)
    IN  SortRows([i \in DOMAIN candidates |->
                    [member |-> candidates[i].member,
                     score  |-> candidates[i].score,
                     _soft  |-> soft[i],
                     pos    |-> i]],
                 DOMAIN candidates)

\* One row per role title: the assigned-to line, the report it draws from and
\* that report's candidates (report?.candidates || []) as sorted rows.
RenderRows(rl, asgs, reps, debug) ==
    LET roleTitles == RoleTitles(rl)
    IN  [idx \in DOMAIN roleTitles |->
            [title  |-> roleTitles[idx],
             shown  |-> AssignedToLine(PersonOf(asgs, roleTitles[idx])),
             report |-> FindReport(reps, roleTitles[idx]),
             candidates |->
                IF FindReport(reps, roleTitles[idx]) = 0 THEN <<>>
                ELSE CandidateRows(reps[FindReport(reps, roleTitles[idx])].candidates,
                                   TemperatureOf(debug))]]

\* The match response reaches the results view as its props.
Respond ==
    /\ epc = "returned"
    /\ vpc = "idle"
    /\ assignmentsProp' \in TitleKeyedMaps(assignment, roles)
    /\ reportsProp' = ReportsByTitle(reports, roles)
    /\ debugProp' = DebugOf(DefaultTemperature)
    /\ vpc' = "props"
    /\ UNCHANGED <<auxVars, serviceVars, engineVars, roles, rows, clientVars>>

\* RoleMatchResults renders.
Render ==
    /\ vpc = "props"
    /\ rows' = RenderRows(roles, assignmentsProp, reportsProp, debugProp)
    /\ vpc' = "rendered"
    /\ UNCHANGED <<auxVars, serviceVars, engineVars, roles, assignmentsProp, reportsProp,
                   debugProp, clientVars>>

\* Injective maps of 1..n onto itself.
Orderings(n) ==
    {f \in [1..n -> 1..n] : \A i, j \in 1..n : f[i] = f[j] => i = j}

\* A report as another producer may send it: the same candidates in the
\* order f, with or without their soft_score.
Reordered(report, f, keep) ==
    [report EXCEPT !.candidates =
        [i \in DOMAIN report.candidates |->
            [report.candidates[f[i]] EXCEPT
                !.soft_score = IF keep THEN @ ELSE NoSoftScore]]]

\* A response whose reports are not pre-sorted or carry no soft_score, with
\* any softmax temperature in its debug payload, or none.
RespondAnyOrder ==
    /\ epc = "returned"
    /\ vpc = "idle"
    /\ assignmentsProp' \in TitleKeyedMaps(assignment, roles)
    /\ \E f \in [1..nRoles -> Orderings(nMembers)], keep \in [1..nRoles -> BOOLEAN] :
          reportsProp' = [r \in 1..nRoles |->
                            Reordered(ReportsByTitle(reports, roles)[r], f[r], keep[r])]
    /\ debugProp' \in {NoDebug, DebugOf(0), DebugOf(10)}
    /\ vpc' = "props"
    /\ UNCHANGED <<auxVars, serviceVars, engineVars, roles, rows, clientVars>>


(***************************************************************************)
(* The page orchestrator (app/page.js, `Home`) with the work its children  *)
(* and its own match handler leave pending.                                *)
(***************************************************************************)
MaxExtractions == 1
MaxSubmissions == 1
MaxMatchRequests == 2

PLANNING == "planning"
TEAM_INPUT == "team-input"
OVERVIEW == "overview"
MATCHED == "matched"

MaxTeamSize == 2
MaxTeamSubmissions == 2
MaxReplans == 2

\* A list of roles or of members: the submission it came from and its length.
NoRoles == [of |-> 0, n |-> 0]
NoMembers == [of |-> 0, n |-> 0]

NoSubmission == [id |-> 0, specs |-> 0, members |-> 0, incomplete |-> 0,
                 staleRoles |-> NoRoles,
                 stage |-> "none", membersOut |-> NoMembers, roles |-> NoRoles,
                 ready |-> FALSE]


\* useState initial values of Home.
HomeInit ==
    /\ currentPhase = PLANNING
    /\ finalSpecifications = 0
    /\ finalMembers = NoMembers
    /\ finalRoles = NoRoles
    /\ planningDirty = FALSE
    /\ specsReady = FALSE
    /\ teamDirty = FALSE
    /\ teamReady = FALSE
    /\ roleAssignments = 0
    /\ roleReports = 0
    /\ matchDebug = 0
    /\ topK = 10

\* Initial state of the children: nothing loading, nothing in flight.
PendingInit ==
    /\ chatLoading = FALSE
    /\ extractions = {}
    /\ nExtractions = 0
    /\ formDirty = FALSE
    /\ derivedRoles = NoRoles
    /\ teamSize = 1
    /\ incomplete = 1
    /\ teamLog = [processed |-> 0, cleanups |-> 0, notified |-> 0, failed |-> 0]
    /\ submission = NoSubmission
    /\ nSubmissions = 0
    /\ matchRequests = {}
    /\ nMatchRequests = 0
    /\ timers = [goToMatched |-> 0, goToOverview |-> 0]
    /\ partialReturned = FALSE
    /\ lastGood = 0

\* Text is a sequence of characters.
Whitespace == {" ", "\t", "\n"}

UpperCase == <<"A", "B", "C", "D", "E", "F", "G", "H", "I", "J", "K", "L", "M",
               "N", "O", "P", "Q", "R", "S", "T", "U", "V", "W", "X", "Y", "Z">>

LowerCase == <<"a", "b", "c", "d", "e", "f", "g", "h", "i", "j", "k", "l", "m",
               "n", "o", "p", "q", "r", "s", "t", "u", "v", "w", "x", "y", "z">>

\* String.prototype.toLowerCase
ToLowerCase(text) ==
    [i \in DOMAIN text |->
        IF \E k \in DOMAIN UpperCase : UpperCase[k] = text[i]
        THEN LowerCase[CHOOSE k \in DOMAIN UpperCase : UpperCase[k] = text[i]]
        ELSE text[i]]

RECURSIVE TrimStart(_)
TrimStart(text) ==
    IF text # <<>> /\ Head(text) \in Whitespace THEN TrimStart(Tail(text)) ELSE text

RECURSIVE TrimEnd(_)
TrimEnd(text) ==
    IF text # <<>> /\ text[Len(text)] \in Whitespace
    THEN TrimEnd(SubSeq(text, 1, Len(text) - 1))
    ELSE text

\* String.prototype.trim
Trim(text) == TrimEnd(TrimStart(text))

\* 'Yes, I am ready to start delegating tasks.'
DELEGATION_CONFIRMATION_TEXT ==
    <<"Y", "e", "s", ",", " ", "I", " ", "a", "m", " ", "r", "e", "a", "d", "y",
      " ", "t", "o", " ", "s", "t", "a", "r", "t", " ", "d", "e", "l", "e", "g",
      "a", "t", "i", "n", "g", " ", "t", "a", "s", "k", "s", ".">>

\* The chat opens with the planner's greeting.
defaultMessages == <<[role |-> "model", content |-> <<"Hello! ...">>]>>

\* useState initial values of ProjectPlanningChat, nothing in flight.
TranscriptInit ==
    /\ messages = defaultMessages
    /\ chatCalls = {}
    /\ extractedFrom = <<>>

ClientInit == HomeInit /\ PendingInit /\ TranscriptInit

\* ---- Planning ----------------------------------------------------------

\* handlePlanningMessage: a new chat message invalidates the specifications.
\* A handler that marks planning dirty but keeps the specifications.
HandlePlanningMessage_KeepingSpecs ==
    /\ planningDirty' = TRUE
    /\ specsReady' = FALSE
    /\ finalSpecifications' = finalSpecifications

HandlePlanningMessage ==
    /\ planningDirty' = TRUE
    /\ specsReady' = FALSE
    /\ finalSpecifications' = 0

\* sendMessage, standard conversation flow: the message goes to /api/chat.
SendChatMessage ==
    /\ currentPhase = PLANNING
    /\ ~chatLoading
    /\ HandlePlanningMessage
    /\ chatLoading' = TRUE
    /\ UNCHANGED <<auxVars, serviceVars, engineVars, viewVars>>
    /\ UNCHANGED <<currentPhase, finalMembers, finalRoles, teamDirty, teamReady,
                   roleAssignments, roleReports, matchDebug, topK>>
    /\ UNCHANGED <<extractions, nExtractions, formDirty, derivedRoles, submission,
                   nSubmissions, teamSize, incomplete, teamLog, matchRequests, nMatchRequests, timers, partialReturned, lastGood>>

\* /api/chat answers or fails: finally { setIsLoading(false) }.
ChatReplies ==
    /\ chatLoading
    /\ chatLoading' = FALSE
    /\ UNCHANGED <<auxVars, serviceVars, engineVars, viewVars, homeVars>>
    /\ UNCHANGED <<extractions, nExtractions, formDirty, derivedRoles, submission,
                   nSubmissions, teamSize, incomplete, teamLog, matchRequests, nMatchRequests, timers, partialReturned, lastGood>>

\* sendMessage with the confirmation phrase: /api/extract-specifications is
\* requested; isLoading is not set on this path.
SendConfirmationWithin(limit) ==
    /\ currentPhase = PLANNING
    /\ ~chatLoading
    /\ nExtractions < limit
    /\ HandlePlanningMessage
    /\ nExtractions' = nExtractions + 1
    /\ extractions' = extractions \cup {nExtractions + 1}
    /\ UNCHANGED <<auxVars, serviceVars, engineVars, viewVars>>
    /\ UNCHANGED <<currentPhase, finalMembers, finalRoles, teamDirty, teamReady,
                   roleAssignments, roleReports, matchDebug, topK>>
    /\ UNCHANGED <<chatLoading, formDirty, derivedRoles, submission, nSubmissions, teamSize, incomplete, teamLog,
                   matchRequests, nMatchRequests, timers, partialReturned, lastGood>>

SendConfirmation == SendConfirmationWithin(MaxExtractions)

\* The same handler, in a session in which the plan is confirmed again after
\* the user went back to Planning.
SendConfirmationAgain == SendConfirmationWithin(MaxReplans)

\* The extraction answers: handleSpecificationsGenerated(specs), then
\* onProceed() = goToTeamInput.
ExtractionSucceeds ==
    \E e \in extractions :
        /\ extractions' = extractions \ {e}
        /\ finalSpecifications' = e
        /\ specsReady' = TRUE
        /\ planningDirty' = FALSE
        /\ currentPhase' = TEAM_INPUT
        /\ UNCHANGED <<auxVars, serviceVars, engineVars, viewVars>>
        /\ UNCHANGED <<finalMembers, finalRoles, teamDirty, teamReady,
                       roleAssignments, roleReports, matchDebug, topK>>
        /\ UNCHANGED <<chatLoading, nExtractions, formDirty, derivedRoles, submission,
                       nSubmissions, teamSize, incomplete, teamLog, matchRequests, nMatchRequests, timers, partialReturned, lastGood>>

\* The extraction fails: only an apology is appended to the chat.
ExtractionFails ==
    \E e \in extractions :
        /\ extractions' = extractions \ {e}
        /\ UNCHANGED <<auxVars, serviceVars, engineVars, viewVars, homeVars>>
        /\ UNCHANGED <<chatLoading, nExtractions, formDirty, derivedRoles, submission,
                       nSubmissions, teamSize, incomplete, teamLog, matchRequests, nMatchRequests, timers, partialReturned, lastGood>>

\* ---- Planning, with the transcript ---------------------------------------
\* The actions above keep, of the chat, only whether a reply is awaited and
\* which extractions are in flight.  The actions below are sendMessage and
\* its continuations with the messages themselves.
MaxUserMessages == 2

\* What the user may have in the input box when the form is submitted.
ChatInputs ==
    {DELEGATION_CONFIRMATION_TEXT,
     ToLowerCase(DELEGATION_CONFIRMATION_TEXT),
     <<" ">> \o DELEGATION_CONFIRMATION_TEXT \o <<" ", "\n">>,
     <<"Y", "E", "S">> \o SubSeq(DELEGATION_CONFIRMATION_TEXT, 4,
                                  Len(DELEGATION_CONFIRMATION_TEXT)),
     SubSeq(DELEGATION_CONFIRMATION_TEXT, 1, Len(DELEGATION_CONFIRMATION_TEXT) - 1),
     <<"Y", "e", "s">>,
     <<"A", " ", "c", "h", "a", "t", " ", "a", "p", "p">>,
     <<" ", " ">>,
     <<>>}

UserMessages(transcript) ==
    Cardinality({i \in DOMAIN transcript : transcript[i].role = "user"})

\* The confirmation test with the texts compared as they are.
IsDelegatingConfirmation_Exact(content) == content = DELEGATION_CONFIRMATION_TEXT

\* userMessageContent.trim().toLowerCase() ===
\*     DELEGATION_CONFIRMATION_TEXT.toLowerCase()
IsDelegatingConfirmation(content) ==
    ToLowerCase(Trim(content)) = ToLowerCase(DELEGATION_CONFIRMATION_TEXT)

\* The guard of a sendMessage that does not look at isLoading.
Accepted_WhileLoading(input, isLoading) == Trim(input) # <<>>

\* if (!input.trim() || isLoading) return;
Accepted(input, isLoading) == Trim(input) # <<>> /\ ~isLoading

\* sendMessage: empty input and a pending reply are refused; the trimmed
\* input joins the transcript, the parent is told (onUserMessage), and the
\* transcript goes to /api/extract-specifications when the message is the
\* confirmation and to /api/chat, with isLoading set, when it is not.
SendMessage ==
    \E input \in ChatInputs :
        /\ currentPhase = PLANNING
        /\ Accepted(input, chatLoading)
        /\ UserMessages(messages) < MaxUserMessages
        /\ LET userMessageContent == Trim(input)
               newMessages == Append(messages, [role |-> "user",
                                                content |-> userMessageContent])
           IN  /\ HandlePlanningMessage
               /\ messages' = newMessages
               /\ IF IsDelegatingConfirmation(userMessageContent)
                  THEN /\ chatCalls' = chatCalls \cup
                             {[api |-> "/api/extract-specifications",
                               messages |-> newMessages]}
                       /\ UNCHANGED chatLoading
                  ELSE /\ chatCalls' = chatCalls \cup
                             {[api |-> "/api/chat", messages |-> newMessages]}
                       /\ chatLoading' = TRUE
        /\ UNCHANGED <<amplifyVars, routeVars, diskVars, serviceVars, engineVars, viewVars>>
        /\ UNCHANGED <<currentPhase, finalMembers, finalRoles, teamDirty, teamReady,
                       roleAssignments, roleReports, matchDebug, topK>>
        /\ UNCHANGED <<extractions, nExtractions, formDirty, derivedRoles, submission,
                       nSubmissions, teamSize, incomplete, teamLog, matchRequests, nMatchRequests,
                       timers, partialReturned, lastGood>>
        /\ UNCHANGED extractedFrom

\* A continuation of sendMessage whose catch block appends nothing.
ChatAnswers_SilentFailure ==
    \E c \in chatCalls, ok \in BOOLEAN :
        /\ c.api = "/api/chat"
        /\ chatCalls' = chatCalls \ {c}
        /\ messages' = IF ok
                        THEN Append(messages, [role |-> "model",
                                               content |-> <<"data.content">>])
                        ELSE messages
        /\ chatLoading' = FALSE
        /\ UNCHANGED <<amplifyVars, routeVars, diskVars, serviceVars, engineVars, viewVars, homeVars>>
        /\ UNCHANGED <<extractions, nExtractions, formDirty, derivedRoles, submission,
                       nSubmissions, teamSize, incomplete, teamLog, matchRequests, nMatchRequests,
                       timers, partialReturned, lastGood>>
        /\ UNCHANGED extractedFrom

\* /api/chat answers or fails: the reply, or an apology, joins the transcript;
\* finally { setIsLoading(false) }.
ChatAnswers ==
    \E c \in chatCalls, ok \in BOOLEAN :
        /\ c.api = "/api/chat"
        /\ chatCalls' = chatCalls \ {c}
        /\ messages' = Append(messages,
              [role |-> "model",
               content |-> IF ok THEN <<"data.content">>
                           ELSE <<"Sorry, I ran into an error. Please try again.">>])
        /\ chatLoading' = FALSE
        /\ UNCHANGED <<amplifyVars, routeVars, diskVars, serviceVars, engineVars, viewVars, homeVars>>
        /\ UNCHANGED <<extractions, nExtractions, formDirty, derivedRoles, submission,
                       nSubmissions, teamSize, incomplete, teamLog, matchRequests, nMatchRequests,
                       timers, partialReturned, lastGood>>
        /\ UNCHANGED extractedFrom

\* /api/extract-specifications answers: an acknowledgement joins the
\* transcript, handleSpecificationsGenerated(specifications) stores what was
\* extracted from the transcript sent, and onProceed() = goToTeamInput.
ExtractionAnswers ==
    \E c \in chatCalls :
        /\ c.api = "/api/extract-specifications"
        /\ chatCalls' = chatCalls \ {c}
        /\ messages' = Append(messages,
              [role |-> "model",
               content |-> <<"Acknowledged. Specifications generated. You can proceed when ready.">>])
        /\ finalSpecifications' = UserMessages(c.messages)
        /\ extractedFrom' = c.messages
        /\ specsReady' = TRUE
        /\ planningDirty' = FALSE
        /\ currentPhase' = TEAM_INPUT
        /\ UNCHANGED <<amplifyVars, routeVars, diskVars, serviceVars, engineVars, viewVars>>
        /\ UNCHANGED <<finalMembers, finalRoles, teamDirty, teamReady,
                       roleAssignments, roleReports, matchDebug, topK>>
        /\ UNCHANGED <<chatLoading, extractions, nExtractions, formDirty, derivedRoles,
                       submission, nSubmissions, teamSize, incomplete, teamLog, matchRequests,
                       nMatchRequests, timers, partialReturned, lastGood>>

\* /api/extract-specifications fails: an apology joins the transcript.
ExtractionRefused ==
    \E c \in chatCalls :
        /\ c.api = "/api/extract-specifications"
        /\ chatCalls' = chatCalls \ {c}
        /\ messages' = Append(messages,
              [role |-> "model",
               content |-> <<"Sorry, I could not extract specifications. Please try again.">>])
        /\ UNCHANGED <<amplifyVars, routeVars, diskVars, serviceVars, engineVars, viewVars, homeVars>>
        /\ UNCHANGED <<chatLoading, extractions, nExtractions, formDirty, derivedRoles,
                       submission, nSubmissions, teamSize, incomplete, teamLog, matchRequests,
                       nMatchRequests, timers, partialReturned, lastGood>>
        /\ UNCHANGED extractedFrom

\* ---- Team input --------------------------------------------------------
planVars == <<planningDirty, specsReady>>
matchResultVars == <<roleAssignments, roleReports, matchDebug>>
chatVars == <<chatLoading, extractions, nExtractions>>
matchPendingVars == <<matchRequests, nMatchRequests, partialReturned, lastGood>>

\* The form's effect calls onDirtyChange(isDirty) whenever isDirty or the
\* onDirtyChange prop changes.  Home passes a new arrow function on each of its
\* renders, so after every render of Home teamDirty is isDirty again.
\*
\* addMember / removeMember / updateMember / handleResumeChange: the list of
\* members becomes one of n entries and setIsDirty(true).
EditTeam(n, k) ==
    /\ currentPhase = TEAM_INPUT
    /\ teamSize' = n
    /\ incomplete' = k
    /\ formDirty' = TRUE
    /\ teamDirty' = TRUE
    /\ UNCHANGED <<auxVars, serviceVars, engineVars, viewVars, planVars, matchResultVars, chatVars,
                   matchPendingVars>>
    /\ UNCHANGED <<currentPhase, finalSpecifications, finalMembers, finalRoles,
                   teamReady, topK, derivedRoles, submission, nSubmissions, teamLog, timers>>

\* updateMember, handleResumeChange: an entry is changed; it has a name and a
\* resume file afterwards, or it is as complete as it was.
EditTeamForm ==
    \E k \in {incomplete, incomplete - 1} \cap 0..teamSize : EditTeam(teamSize, k)

\* updateMember with a blank name: an entry that was complete is not any more.
ClearEntry == incomplete < teamSize /\ EditTeam(teamSize, incomplete + 1)

\* addMember: a copy of initialMember, without name and resume, is appended.
AddMember == teamSize < MaxTeamSize /\ EditTeam(teamSize + 1, incomplete + 1)

\* removeMember; the control is rendered while teamMembers.length > 1.  The
\* entry removed is a complete or an incomplete one.
RemoveMember ==
    /\ teamSize > 1
    /\ \E k \in {incomplete, incomplete - 1} \cap 0..(teamSize - 1) :
          EditTeam(teamSize - 1, k)

\* The in-flight guard of a handler that has none.
GuardPasses_Always(inFlight) == TRUE

\* if (inFlightRef.current) return;
GuardPasses(inFlight) == ~inFlight

\* The validation of a handler that accepts any form.
IsValid_Always(n, k) == TRUE

\* isValid = teamMembers.length > 0 &&
\*           teamMembers.every(m => m.name.trim() && m.resumeFile)
IsValid(n, k) == n > 0 /\ k = 0

\* handleSubmit passes the in-flight guard and the validation
\* (teamMembers.length > 0, every member named and with a resume) and starts
\* uploading the resumes.  It keeps the teamMembers, the finalSpecifications
\* and the derivedRoles of the render whose handler it is.
SubmitTeamWithin(limit) ==
    /\ currentPhase = TEAM_INPUT
    /\ GuardPasses(submission # NoSubmission)
    /\ IsValid(teamSize, incomplete)
    /\ nSubmissions < limit
    /\ nSubmissions' = nSubmissions + 1
    /\ submission' = [id |-> nSubmissions + 1, specs |-> finalSpecifications,
                      members |-> teamSize, incomplete |-> incomplete,
                      staleRoles |-> derivedRoles,
                      stage |-> "uploads", membersOut |-> NoMembers,
                      roles |-> NoRoles, ready |-> FALSE]
    /\ UNCHANGED <<auxVars, serviceVars, engineVars, viewVars, homeVars, chatVars, matchPendingVars>>
    /\ UNCHANGED <<formDirty, derivedRoles, teamSize, incomplete, teamLog, timers>>

SubmitTeam == SubmitTeamWithin(MaxSubmissions)

\* The same handler, on a form that is submitted more often.
SubmitTeamAgain == SubmitTeamWithin(MaxTeamSubmissions)

\* /api/cleanup-resumes requests of a handler that cleans up on every exit.
CleanupRequests_OnEveryExit(processed) == 1

\* /api/cleanup-resumes requests a submission issues: one, in the success
\* branch of the /api/process-team-data response, and nowhere else.
CleanupRequests(processed) == IF processed THEN 1 ELSE 0

\* The resumes are uploaded: setTeamMembers(uploadedMembers) puts back the
\* members the handler started from; /api/extract-roles and
\* /api/process-team-data follow.
UploadsDone ==
    /\ submission.stage = "uploads"
    /\ submission' = [submission EXCEPT !.stage = "requests"]
    /\ teamSize' = submission.members
    /\ incomplete' = submission.incomplete
    /\ UNCHANGED <<auxVars, serviceVars, engineVars, viewVars, homeVars, chatVars, matchPendingVars>>
    /\ UNCHANGED <<formDirty, derivedRoles, nSubmissions, teamLog, timers>>

\* /api/extract-roles is asked for memberCount roles: on success the roles it
\* derived (one per member), otherwise rolesLocal stays [].
RolesDerived(id, memberCount) == {NoRoles, [of |-> id, n |-> memberCount]}

\* A handler whose failure path does not reach finally: the guard stays set.
SubmissionFails_GuardKept ==
    /\ submission.stage \in {"uploads", "requests"}
    /\ submission' = [submission EXCEPT !.stage = "failed"]
    /\ teamLog' = [teamLog EXCEPT !.failed = @ + 1]
    /\ UNCHANGED <<auxVars, serviceVars, engineVars, viewVars, homeVars, chatVars, matchPendingVars>>
    /\ UNCHANGED <<formDirty, derivedRoles, nSubmissions, teamSize, incomplete, timers>>

\* An upload, or /api/process-team-data, fails: catch, then finally.  Roles
\* may have been derived (setDerivedRoles) before /api/process-team-data failed.
SubmissionFails ==
    /\ submission.stage \in {"uploads", "requests"}
    /\ \E rolesLocal \in RolesDerived(submission.id, submission.members) :
          /\ submission.stage = "uploads" => rolesLocal = NoRoles
          /\ derivedRoles' = IF rolesLocal # NoRoles THEN rolesLocal ELSE derivedRoles
    /\ teamLog' = [teamLog EXCEPT !.cleanups = @ + CleanupRequests(FALSE),
                                  !.failed = @ + 1]
    /\ submission' = NoSubmission
    /\ UNCHANGED <<auxVars, serviceVars, engineVars, viewVars, homeVars, chatVars, matchPendingVars>>
    /\ UNCHANGED <<formDirty, nSubmissions, teamSize, incomplete, timers>>

\* rolesOut: the roles just derived, else the derivedRoles of the render that
\* created this handler.
RolesOut(rolesLocal, stale) == IF rolesLocal.n > 0 THEN rolesLocal ELSE stale

\* The readiness of a handler that does not look at the roles.
Ready_MembersOnly(membersOut, rolesOut, memberCount) ==
    membersOut.n = memberCount

\* hasMemberDetails = membersOut.length === uploadedMembers.length;
\* hasRoles = rolesOut.length > 0; ready = !!(hasMemberDetails && hasRoles)
Ready(membersOut, rolesOut, memberCount) ==
    membersOut.n = memberCount /\ rolesOut.n > 0

\* /api/process-team-data reports success: the members it returned (any
\* number of them) are normalised, setIsDirty(false), readiness is computed,
\* and /api/cleanup-resumes is requested and awaited.
SubmissionProcessed ==
    /\ submission.stage = "requests"
    /\ \E rolesLocal \in RolesDerived(submission.id, submission.members),
          returned \in 0..submission.members :
          LET membersOut == [of |-> submission.id, n |-> returned]
              rolesOut == RolesOut(rolesLocal, submission.staleRoles)
          IN  /\ derivedRoles' = IF rolesLocal # NoRoles THEN rolesLocal ELSE derivedRoles
              /\ submission' =
                    [submission EXCEPT
                        !.stage = "cleanup",
                        !.membersOut = membersOut,
                        !.roles = rolesOut,
                        !.ready = Ready(membersOut, rolesOut, submission.members)]
    /\ teamLog' = [teamLog EXCEPT !.processed = @ + 1,
                                  !.cleanups = @ + CleanupRequests(TRUE)]
    /\ formDirty' = FALSE
    /\ teamDirty' = FALSE
    /\ UNCHANGED <<auxVars, serviceVars, engineVars, viewVars, planVars, matchResultVars, chatVars,
                   matchPendingVars>>
    /\ UNCHANGED <<currentPhase, finalSpecifications, finalMembers, finalRoles,
                   teamReady, topK, nSubmissions, teamSize, incomplete, timers>>

\* The cleanup returns or throws (non-fatal): onTeamProcessed(payload) runs in
\* the parent, then finally releases the guard.  setTeamDirty(false) is
\* followed, in the render it causes, by the form's effect reporting isDirty.
TeamProcessed ==
    /\ submission.stage = "cleanup"
    /\ finalMembers' = submission.membersOut
    /\ finalRoles' = submission.roles
    /\ finalSpecifications' =
          IF submission.specs # 0 THEN submission.specs ELSE finalSpecifications
    /\ teamReady' = submission.ready
    /\ teamDirty' = formDirty
    /\ timers' = IF submission.ready
                 THEN [timers EXCEPT !.goToOverview = @ + 1]
                 ELSE timers
    /\ teamLog' = [teamLog EXCEPT !.notified = @ + 1]
    /\ submission' = NoSubmission
    /\ UNCHANGED <<auxVars, serviceVars, engineVars, viewVars, planVars, matchResultVars, chatVars,
                   matchPendingVars>>
    /\ UNCHANGED <<currentPhase, topK, formDirty, derivedRoles, nSubmissions, teamSize, incomplete>>

\* ---- Navigation and the Top-K control ----------------------------------

\* <ProjectPlanningChat canProceed={specsReady && !planningDirty} />
CanProceedPlanning == specsReady /\ ~planningDirty

\* canProceed of TeamInputForm, with the gate on teamDirty left out.
CanProceedTeamInput_IgnoringDirty == teamReady /\ ~planningDirty

\* <TeamInputForm canProceed={teamReady && !teamDirty && !planningDirty} />
CanProceedTeamInput == teamReady /\ ~teamDirty /\ ~planningDirty

\* <ProjectOverview canProceed={teamReady && !planningDirty && !teamDirty} />
CanProceedOverview == teamReady /\ ~planningDirty /\ ~teamDirty

\* setCurrentPhase(phase), with the stored match results reset as well.
GoTo_ClearingResults(phase) ==
    /\ currentPhase' = phase
    /\ roleAssignments' = 0
    /\ roleReports' = 0
    /\ matchDebug' = 0
    /\ UNCHANGED <<auxVars, serviceVars, engineVars, viewVars, planVars, pendingVars>>
    /\ UNCHANGED <<finalSpecifications, finalMembers, finalRoles, teamDirty,
                   teamReady, topK>>

\* goToPlanning, goToTeamInput, goToOverview, goToMatched, goBackToOverview:
\* setCurrentPhase(phase).
GoTo(phase) ==
    /\ currentPhase' = phase
    /\ UNCHANGED <<auxVars, serviceVars, engineVars, viewVars, planVars, matchResultVars, pendingVars>>
    /\ UNCHANGED <<finalSpecifications, finalMembers, finalRoles, teamDirty,
                   teamReady, topK>>

\* "Proceed to Team Input": canProceed={specsReady && !planningDirty}
ProceedToTeamInput ==
    /\ currentPhase = PLANNING
    /\ CanProceedPlanning
    /\ GoTo(TEAM_INPUT)

\* "Back to Planning"
BackToPlanning ==
    /\ currentPhase = TEAM_INPUT
    /\ GoTo(PLANNING)

\* "Proceed to Overview": canProceed={teamReady && !teamDirty && !planningDirty}
ProceedToOverview ==
    /\ currentPhase = TEAM_INPUT
    /\ CanProceedTeamInput
    /\ GoTo(OVERVIEW)

\* "Back to Team Input"
BackToTeam ==
    /\ currentPhase = OVERVIEW
    /\ GoTo(TEAM_INPUT)

\* "Back to Overview"
BackToOverview ==
    /\ currentPhase = MATCHED
    /\ GoTo(OVERVIEW)

\* What the user may leave in the Top-K input: nothing, text that is not a
\* number, or an integer.
TopKInputs ==
    {[kind |-> "empty", n |-> 0], [kind |-> "text", n |-> 0],
     [kind |-> "int", n |-> 0], [kind |-> "int", n |-> 150],
     [kind |-> "int", n |-> -5], [kind |-> "int", n |-> 1],
     [kind |-> "int", n |-> 100]}

\* parseInt(e.target.value || '10', 10): an integer, or NaN.
ParseTopK(value) ==
    CASE value.kind = "empty" -> [finite |-> TRUE, n |-> 10]
      [] value.kind = "text"  -> [finite |-> FALSE, n |-> 0]
      [] value.kind = "int"   -> [finite |-> TRUE, n |-> value.n]

\* An onChange that stores the parsed number as it is.
TopKFromInput_Unclamped(value) ==
    LET v == ParseTopK(value)
    IN  IF v.finite THEN v.n ELSE 10

\* Number.isFinite(v) ? Math.max(1, Math.min(100, v)) : 10
TopKFromInput(value) ==
    LET v == ParseTopK(value)
    IN  IF v.finite
        THEN (IF v.n > 100 THEN 100 ELSE IF v.n < 1 THEN 1 ELSE v.n)
        ELSE 10

\* The Top-K input's onChange; the control is rendered with the member cards.
ChangeTopK ==
    /\ currentPhase = OVERVIEW
    /\ finalMembers.n > 0
    /\ \E value \in TopKInputs : topK' = TopKFromInput(value)
    /\ UNCHANGED <<auxVars, serviceVars, engineVars, viewVars, planVars, matchResultVars, pendingVars>>
    /\ UNCHANGED <<currentPhase, finalSpecifications, finalMembers, finalRoles,
                   teamDirty, teamReady>>

\* ---- Role matching ------------------------------------------------------

\* The backend's match operation is all-or-nothing: with a required embedding
\* failed it returns a failure and no assignment (design section 7).
MatchOutcome(embeddingsOk, id) ==
    IF embeddingsOk THEN [success |-> TRUE, data |-> id]
    ELSE [success |-> FALSE, data |-> 0]

\* What the client may receive for a backend outcome: the outcome as a JSON
\* body or a body that is not JSON, under an OK or a non-OK status.
Deliveries(out) ==
    {[ok |-> ok, readable |-> TRUE, success |-> out.success, data |-> out.data] :
        ok \in BOOLEAN}
    \cup {[ok |-> ok, readable |-> FALSE, success |-> FALSE, data |-> 0] :
        ok \in BOOLEAN}

\* A failed match request, as the client sees it: a non-OK response, a body
\* that cannot be read, or success = false.
FailedResponse(resp) == ~resp.ok \/ ~resp.readable \/ ~resp.success

ResponseAccepted_StatusOnly(resp) == resp.readable /\ resp.ok

\* const data = await res.json();  (throws on an unreadable body)
\* if (!res.ok || !data?.success) throw new Error(...)
ResponseAccepted(resp) == resp.readable /\ resp.ok /\ resp.success

\* handleProceedToMatch up to its fetch: the payload is built from the current
\* finalRoles, finalMembers and topK.  The request in flight keeps the roles and
\* the members it was built from; its top_k is the topK of the state it leaves.  Both match buttons are disabled unless
\* canProceed={teamReady && !planningDirty && !teamDirty}.
ProceedToMatch ==
    /\ currentPhase = OVERVIEW
    /\ CanProceedOverview
    /\ nMatchRequests < MaxMatchRequests
    /\ nMatchRequests' = nMatchRequests + 1
    /\ matchRequests' = matchRequests \cup
          {[id |-> nMatchRequests + 1, roles |-> finalRoles,
            members |-> finalMembers]}
    /\ UNCHANGED <<auxVars, serviceVars, engineVars, viewVars, homeVars, chatVars>>
    /\ UNCHANGED <<formDirty, derivedRoles, submission, nSubmissions, teamSize, incomplete, teamLog, timers,
                   partialReturned, lastGood>>

\* The backend's answer arrives and handleProceedToMatch continues after its
\* fetch: it stores the results and defers goToMatched, or alerts.
MatchHandled ==
    \E q \in matchRequests, embeddingsOk \in BOOLEAN :
      \E resp \in Deliveries(MatchOutcome(embeddingsOk, q.id)) :
        /\ matchRequests' = matchRequests \ {q}
        /\ partialReturned' =
              (partialReturned \/ (~embeddingsOk /\ (resp.success \/ resp.data # 0)))
        /\ lastGood' = IF FailedResponse(resp) THEN lastGood ELSE resp.data
        /\ IF ResponseAccepted(resp)
           THEN /\ roleAssignments' = resp.data
                /\ roleReports' = resp.data
                /\ matchDebug' = resp.data
                /\ timers' = [timers EXCEPT !.goToMatched = @ + 1]
           ELSE UNCHANGED <<roleAssignments, roleReports, matchDebug, timers>>
        /\ UNCHANGED <<auxVars, serviceVars, engineVars, viewVars, planVars, chatVars>>
        /\ UNCHANGED <<currentPhase, finalSpecifications, finalMembers, finalRoles,
                       teamDirty, teamReady, topK, formDirty, derivedRoles,
                       submission, nSubmissions, teamSize, incomplete, teamLog, nMatchRequests>>

\* ---- Deferred callbacks -------------------------------------------------

\* setTimeout(() => goToMatched(), 0)
GoToMatchedFires ==
    /\ timers.goToMatched > 0
    /\ timers' = [timers EXCEPT !.goToMatched = @ - 1]
    /\ currentPhase' = MATCHED
    /\ UNCHANGED <<auxVars, serviceVars, engineVars, viewVars, planVars, matchResultVars, chatVars,
                   matchPendingVars>>
    /\ UNCHANGED <<finalSpecifications, finalMembers, finalRoles, teamDirty,
                   teamReady, topK, formDirty, derivedRoles, submission, nSubmissions, teamSize, incomplete, teamLog>>

\* setTimeout(() => goToOverview(), 0)
GoToOverviewFires ==
    /\ timers.goToOverview > 0
    /\ timers' = [timers EXCEPT !.goToOverview = @ - 1]
    /\ currentPhase' = OVERVIEW
    /\ UNCHANGED <<auxVars, serviceVars, engineVars, viewVars, planVars, matchResultVars, chatVars,
                   matchPendingVars>>
    /\ UNCHANGED <<finalSpecifications, finalMembers, finalRoles, teamDirty,
                   teamReady, topK, formDirty, derivedRoles, submission, nSubmissions, teamSize, incomplete, teamLog>>

(***************************************************************************)
(* The match service: fail-fast validation (design section 7) and the      *)
(* embedding provider with its cache, request collapsing and bounded       *)
(* retries (design sections 4.2 and 5).                                    *)
(***************************************************************************)
MaxRetries == 1

Requests == {1, 2}
Hashes == {"h1", "h2"}

\* Tuning input of a match request.
Configs == [topK : {0, 10}, temperature : {-1, 1}, anchorsOk : BOOLEAN]

\* ConfigurationError: topK <= 0, negative temperature, malformed anchor weights.
ConfigValid(c) == c.topK > 0 /\ c.temperature >= 0 /\ c.anchorsOk

MayEmbed_BeforeValidation(s) == s \in {"new", "embedding"}

\* Embedding calls are made by a request that has passed validation.
MayEmbed(s) == s = "embedding"

InFlightFor_NotCollapsed(F, h) == {}

\* The upstream fetches in flight for a content hash.
InFlightFor(F, h) == {f \in F : f.hash = h}

CanRetry_Always(attempts) == TRUE

\* A timed-out fetch is tried again while fewer than MaxRetries retries were made.
CanRetry(attempts) == attempts <= MaxRetries

\* What the embed calls awaiting fetch f return to request q.
Delivered(f, q, outcome) ==
    {[hash |-> f.hash, fetch |-> f.id, outcome |-> outcome, attempts |-> f.attempts] :
        w \in {w \in waiters : w.fetch = f.id /\ w.request = q}}

ServiceIdle ==
    /\ config = <<>>
    /\ needs = <<>>
    /\ stage = <<>>
    /\ issued = <<>>
    /\ results = <<>>
    /\ embedCache = {}
    /\ fetches = {}
    /\ nFetches = 0
    /\ waiters = {}

\* Match requests as they arrive, with any tuning input and any texts.
ServiceInit ==
    /\ config \in [Requests -> Configs]
    /\ needs \in [Requests -> (SUBSET Hashes) \ {{}}]
    /\ stage = [q \in Requests |-> "new"]
    /\ issued = [q \in Requests |-> {}]
    /\ results = [q \in Requests |-> {}]
    /\ embedCache = {}
    /\ fetches = {}
    /\ nFetches = 0
    /\ waiters = {}

\* The match operation validates its configuration first.
Validate(q) ==
    /\ stage[q] = "new"
    /\ stage' = [stage EXCEPT ![q] = IF ConfigValid(config[q])
                                     THEN "embedding" ELSE "rejected"]
    /\ UNCHANGED <<config, needs, issued, results, embedCache, fetches, nFetches,
                   waiters>>
    /\ UNCHANGED <<engineVars, viewVars, clientVars, auxVars>>

\* embed(text): a cache hit returns at once; otherwise the call awaits the
\* fetch in flight for the hash, or starts one.
Embed(q, h) ==
    /\ MayEmbed(stage[q])
    /\ h \in needs[q] \ issued[q]
    /\ issued' = [issued EXCEPT ![q] = @ \cup {h}]
    /\ IF \E e \in embedCache : e.hash = h
       THEN /\ \E e \in embedCache :
                  /\ e.hash = h
                  /\ results' = [results EXCEPT ![q] = @ \cup
                        {[hash |-> h, fetch |-> e.fetch, outcome |-> "vector",
                          attempts |-> 0]}]
            /\ UNCHANGED <<fetches, nFetches, waiters>>
       ELSE IF InFlightFor(fetches, h) # {}
       THEN /\ \E f \in InFlightFor(fetches, h) :
                  waiters' = waiters \cup {[request |-> q, hash |-> h, fetch |-> f.id]}
            /\ UNCHANGED <<results, fetches, nFetches>>
       ELSE /\ nFetches' = nFetches + 1
            /\ fetches' = fetches \cup
                  {[hash |-> h, id |-> nFetches + 1, attempts |-> 1]}
            /\ waiters' = waiters \cup
                  {[request |-> q, hash |-> h, fetch |-> nFetches + 1]}
            /\ UNCHANGED results
    /\ UNCHANGED <<config, needs, stage, embedCache>>
    /\ UNCHANGED <<engineVars, viewVars, clientVars, auxVars>>

\* The provider answers a fetch: the vector is cached under the content hash
\* and every call awaiting the fetch returns it.
ProviderAnswers(f) ==
    /\ f \in fetches
    /\ embedCache' = embedCache \cup {[hash |-> f.hash, fetch |-> f.id]}
    /\ results' = [q \in Requests |-> results[q] \cup Delivered(f, q, "vector")]
    /\ waiters' = {w \in waiters : w.fetch # f.id}
    /\ fetches' = fetches \ {f}
    /\ UNCHANGED <<config, needs, stage, issued, nFetches>>
    /\ UNCHANGED <<engineVars, viewVars, clientVars, auxVars>>

\* The provider times out: the fetch is retried, or, with the retries used up,
\* every call awaiting it raises EmbeddingError and nothing is cached.
ProviderTimesOut(f) ==
    /\ f \in fetches
    /\ IF CanRetry(f.attempts)
       THEN /\ fetches' = (fetches \ {f}) \cup {[f EXCEPT !.attempts = @ + 1]}
            /\ UNCHANGED <<results, waiters>>
       ELSE /\ results' =
                  [q \in Requests |-> results[q] \cup Delivered(f, q, "EmbeddingError")]
            /\ waiters' = {w \in waiters : w.fetch # f.id}
            /\ fetches' = fetches \ {f}
    /\ UNCHANGED <<config, needs, stage, issued, embedCache, nFetches>>
    /\ UNCHANGED <<engineVars, viewVars, clientVars, auxVars>>

\* The request ends: failed as a whole once an embed call raised, matched when
\* every text has its vector.
Finish(q) ==
    /\ stage[q] = "embedding"
    /\ \/ \E r \in results[q] : r.outcome = "EmbeddingError"
       \/ {r.hash : r \in results[q]} = needs[q]
    /\ stage' = [stage EXCEPT ![q] =
                    IF \E r \in results[q] : r.outcome = "EmbeddingError"
                    THEN "failed" ELSE "matched"]
    /\ UNCHANGED <<config, needs, issued, results, embedCache, fetches, nFetches,
                   waiters>>
    /\ UNCHANGED <<engineVars, viewVars, clientVars, auxVars>>

(***************************************************************************)
(* Domain Amplifier (design section 4.4)                                   *)
(***************************************************************************)
MaxAmpRoles == 2
MaxAmpMembers == 2

\* Cosine scores in fixed point, so that a boost by a half is exact.
AmpScores == {0, 2}

\* The named domain anchors.
Anchors == {"frontend", "backend"}

\* strength: 0 is no boost, 1 is a boost or a penalty by a half.
Strengths == {0, 1}

\* The per-pair boost: a factor above 1 when role and member peak on the same
\* anchor, below 1 when they peak on different anchors, sized by strength.
Boosted(score, samePeak, strength) ==
    (score * (IF samePeak THEN 2 + strength ELSE 2 - strength)) \div 2

Amplify_AlwaysOn(a) ==
    IF a.anchors = {} THEN a.matrix
    ELSE [r \in DOMAIN a.matrix |->
            [m \in DOMAIN a.matrix[r] |->
                Boosted(a.matrix[r][m], a.rolePeak[r] = a.memberPeak[m], a.strength)]]

\* amplify(matrix, roles, members, anchors, strength, temperature): the
\* identity when amplification is disabled or there are no anchors.
Amplify(a) ==
    IF ~a.enabled \/ a.anchors = {} THEN a.matrix
    ELSE [r \in DOMAIN a.matrix |->
            [m \in DOMAIN a.matrix[r] |->
                Boosted(a.matrix[r][m], a.rolePeak[r] = a.memberPeak[m], a.strength)]]

\* Every call within the bounds: any matrix, any switch, any anchor set, and
\* for each role and member the anchor its affinity peaks on (none without
\* anchors).
AmplifyArgs ==
    UNION {
        [matrix     : [1..nR -> [1..nM -> AmpScores]],
         enabled    : BOOLEAN,
         anchors    : {A},
         rolePeak   : IF A = {} THEN {<<>>} ELSE [1..nR -> A],
         memberPeak : IF A = {} THEN {<<>>} ELSE [1..nM -> A],
         strength   : Strengths] :
        nR \in 1..MaxAmpRoles, nM \in 1..MaxAmpMembers, A \in SUBSET Anchors}

AmplifyIdle ==
    /\ ampArgs = <<>>
    /\ ampResult = <<>>
    /\ apc = "idle"

AmplifyInit ==
    /\ ampArgs \in AmplifyArgs
    /\ ampResult = <<>>
    /\ apc = "called"

AmplifyStep ==
    /\ apc = "called"
    /\ ampResult' = Amplify(ampArgs)
    /\ apc' = "returned"
    /\ UNCHANGED ampArgs
    /\ UNCHANGED <<engineVars, viewVars, clientVars, serviceVars, routeVars, transcriptVars, diskVars>>

(***************************************************************************)
(* The API routes (app/api/chat, app/api/extract-specifications,           *)
(* app/api/process-team-data): what each POST handler responds.            *)
(***************************************************************************)
Routes == {"chat", "extract-specifications", "process-team-data"}

\* What may be thrown inside a handler: nothing, or an Error.
Thrown == {"none", "TypeError", "Error"}

\* error.message and error.stack of a thrown Error.
MessageOf(e) == e \o ": message"
StackOf(e) == e \o ": message\n    at POST (route.js)"

\* A request to a route: whether its body can be read, what the handler's
\* collaborator (the model, the backend, the file system) throws, and, for
\* the proxy, the backend's status and content type.
RouteCalls ==
    [route : Routes, bodyReadable : BOOLEAN, thrown : Thrown,
     backendOk : BOOLEAN, backendJson : BOOLEAN]

\* The error a handler's try block ends with, "none" if it runs through:
\* req.json() / req.formData() throws on an unreadable body, then the
\* collaborator may throw.
Caught(c) == IF ~c.bodyReadable THEN "SyntaxError" ELSE c.thrown

\* app/api/chat POST
ChatRoute(c) ==
    IF Caught(c) = "none"
    THEN [status |-> 200, body |-> [content |-> "botResponse"]]
    ELSE [status |-> 500,
          body |-> [error |-> "Failed to communicate with the AI model."]]

\* app/api/extract-specifications POST (proxy to the backend)
ExtractSpecificationsRoute(c) ==
    IF Caught(c) # "none"
    THEN [status |-> 500,
          body |-> [success |-> "false", error |-> MessageOf(Caught(c))]]
    ELSE IF ~c.backendOk
    THEN [status |-> 502,
          body |-> [success |-> "false", error |-> "errorPayload", status |-> "backend status"]]
    ELSE IF c.backendJson
    THEN [status |-> 200, body |-> [data |-> "backend data"]]
    ELSE [status |-> 200, body |-> [text |-> "backend text"]]

\* app/api/process-team-data POST
ProcessTeamDataRoute(c) ==
    IF Caught(c) = "none"
    THEN [status |-> 200,
          body |-> [success |-> "true", message |-> "Team data processed successfully",
                    receivedData |-> "receivedData", debug |-> "debug"]]
    ELSE [status |-> 500,
          body |-> [success |-> "false", error |-> MessageOf(Caught(c)),
                    stack |-> StackOf(Caught(c))]]

RouteHandler(c) ==
    CASE c.route = "chat" -> ChatRoute(c)
      [] c.route = "extract-specifications" -> ExtractSpecificationsRoute(c)
      [] c.route = "process-team-data" -> ProcessTeamDataRoute(c)

NoResponse == [status |-> 0, body |-> <<>>]

RoutesIdle ==
    /\ routeCall = <<>>
    /\ routeResponse = NoResponse
    /\ rpc = "idle"

RoutesInit ==
    /\ routeCall \in RouteCalls
    /\ routeResponse = NoResponse
    /\ rpc = "called"

RouteResponds ==
    /\ rpc = "called"
    /\ routeResponse' = RouteHandler(routeCall)
    /\ rpc' = "responded"
    /\ UNCHANGED routeCall
    /\ UNCHANGED <<engineVars, viewVars, clientVars, serviceVars, amplifyVars, transcriptVars, diskVars>>

(***************************************************************************)
(* The resume cache: the directory .cache/resumes, the routes              *)
(* /api/upload-resume and /api/cleanup-resumes that write and empty it,    *)
(* and the part of TeamInputForm's handleSubmit that calls them.  Every    *)
(* await of a handler is a step of its own, so that requests of several    *)
(* clients interleave inside the handlers.                                 *)
(***************************************************************************)
MaxClients == 2
MaxTicks == 1
MaxResumeMembers == 2
MaxSharingMembers == 1
MaxResumeSubmissions == 2
MaxCleanupCalls == 2

Clients == 1..MaxClients

\* resumePath: '' or the absPath a successful upload returned.  upload and epoch
\* are history: the request that wrote the file and the number of cleanups the
\* client had awaited when it was written.
NoPath == [dest |-> <<>>, upload |-> 0, epoch |-> 0]

\* [a-zA-Z0-9_-]
SafeChars == {"A", "B", "n", "c", "v", "p", "d", "f", "0", "1", "2", "3", "_", "-"}

\* String(memberName || memberId).replace(/[^a-zA-Z0-9_-]/g, '_')
SafeName(name) == [i \in DOMAIN name |-> IF name[i] \in SafeChars THEN name[i] ELSE "_"]

\* path.extname: from the last dot of the base name, '' if there is none or it is first
Extname(file) ==
    LET dots == {i \in DOMAIN file : file[i] = "."}
    IN IF dots = {} THEN <<>>
       ELSE LET last == CHOOSE i \in dots : \A j \in dots : j <= i
            IN IF last = 1 THEN <<>> ELSE SubSeq(file, last, Len(file))

Digits == <<"0", "1", "2", "3">>

\* `${safeName}_${Date.now()}${ext}`
Filename(name, time, file) ==
    LET ext == IF Extname(file) = <<>> THEN <<".", "p", "d", "f">> ELSE Extname(file)
    IN SafeName(name) \o <<"_">> \o <<Digits[time + 1]>> \o ext

\* The members a form can hold: a name and the resume file chosen for it.
MemberEntries ==
    { [name |-> <<"A", "n">>, file |-> <<"c", "v", ".", "p", "d", "f">>],
      [name |-> <<"A", " ", "B">>, file |-> <<"c", "v">>],
      [name |-> <<"A", "_", "B">>, file |-> <<"c", "v", ".", "p", "d", "f">>] }

NoSub == [stage |-> "idle", members |-> <<>>, uploaded |-> <<>>]

EmptyDir == [p \in {} |-> 0]

CallsOf(c) == {k \in diskCalls : k.caller = c}

\* Uploading every member on every submission.
NeedsUpload_Always(member) == TRUE

\* if (!resumePath): only a member without a stored path is uploaded
NeedsUpload(member) == member.path = NoPath

\* prev.map(m => ({ ...m, resumePath: '' }))
ClearPaths(form) == [m \in DOMAIN form |-> [form[m] EXCEPT !.path = NoPath]]

\* No client is open and the directory has not been created.
ResumesIdle ==
    /\ dirExists = FALSE
    /\ stored = EmptyDir
    /\ now = 0
    /\ diskCalls = {}
    /\ nDiskCalls = 0
    /\ active = {}
    /\ forms = [c \in Clients |-> <<>>]
    /\ subs = [c \in Clients |-> NoSub]
    /\ nResumeSubs = [c \in Clients |-> 0]
    /\ epochs = [c \in Clients |-> 0]
    /\ cleanupLog = <<>>

\* The clients in open have a valid team form of size members each, nothing
\* uploaded yet.
ResumesInit(open, size) ==
    /\ dirExists = FALSE
    /\ stored = EmptyDir
    /\ now = 0
    /\ diskCalls = {}
    /\ nDiskCalls = 0
    /\ active = open
    /\ forms \in [Clients -> {<<>>} \cup
                      [1..size -> {[name |-> e.name, file |-> e.file, path |-> NoPath] :
                                      e \in MemberEntries}]]
    /\ \A c \in Clients : forms[c] = <<>> <=> c \notin open
    /\ subs = [c \in Clients |-> NoSub]
    /\ nResumeSubs = [c \in Clients |-> 0]
    /\ epochs = [c \in Clients |-> 0]
    /\ cleanupLog = <<>>

DiskFrame == UNCHANGED <<engineVars, viewVars, clientVars, serviceVars,
                         amplifyVars, routeVars, transcriptVars>>

\* Date.now() advances.
Tick ==
    /\ now < MaxTicks
    /\ now' = now + 1
    /\ UNCHANGED <<dirExists, stored, diskCalls, nDiskCalls, active, forms, subs,
                   nResumeSubs, epochs, cleanupLog>>
    /\ DiskFrame

\* handleResumeChange: a new file is chosen for a member, its resumePath is cleared.
ResumeChanged(c, m) ==
    /\ c \in active
    /\ m \in DOMAIN forms[c]
    /\ forms[c][m].path # NoPath
    /\ forms' = [forms EXCEPT ![c][m].path = NoPath]
    /\ UNCHANGED <<dirExists, stored, now, diskCalls, nDiskCalls, active, subs,
                   nResumeSubs, epochs, cleanupLog>>
    /\ DiskFrame

\* handleSubmit starts: no submission in flight; it works on the teamMembers
\* of the render it was created in.
SubmitResumes(c) ==
    /\ c \in active
    /\ subs[c].stage = "idle"
    /\ nResumeSubs[c] < MaxResumeSubmissions
    /\ subs' = [subs EXCEPT ![c] = [stage |-> "uploads", members |-> forms[c],
                                    uploaded |-> <<>>]]
    /\ nResumeSubs' = [nResumeSubs EXCEPT ![c] = @ + 1]
    /\ UNCHANGED <<dirExists, stored, now, diskCalls, nDiskCalls, active, forms,
                   epochs, cleanupLog>>
    /\ DiskFrame

\* The upload loop, one member per turn: a member with a resumePath keeps it, for
\* any other the file is posted to /api/upload-resume and the loop awaits.
UploadLoop(c) ==
    /\ c \in active
    /\ subs[c].stage = "uploads"
    /\ CallsOf(c) = {}
    /\ Len(subs[c].uploaded) < Len(subs[c].members)
    /\ LET member == subs[c].members[Len(subs[c].uploaded) + 1]
       IN IF NeedsUpload(member)
          THEN /\ diskCalls' = diskCalls \cup
                      {[id |-> nDiskCalls + 1, kind |-> "upload", caller |-> c,
                        name |-> member.name, file |-> member.file,
                        stage |-> "received", dest |-> <<>>, entries |-> 0,
                        after |-> 0]}
               /\ nDiskCalls' = nDiskCalls + 1
               /\ UNCHANGED subs
          ELSE /\ subs' = [subs EXCEPT ![c].uploaded = Append(@, member.path)]
               /\ UNCHANGED <<diskCalls, nDiskCalls>>
    /\ UNCHANGED <<dirExists, stored, now, active, forms, nResumeSubs, epochs, cleanupLog>>
    /\ DiskFrame

\* upload-resume: await mkdir(cacheDir, { recursive: true })
UploadMkdir(u) ==
    /\ u \in diskCalls /\ u.kind = "upload" /\ u.stage = "received"
    /\ dirExists' = TRUE
    /\ diskCalls' = (diskCalls \ {u}) \cup {[u EXCEPT !.stage = "mkdir"]}
    /\ UNCHANGED <<stored, now, nDiskCalls, active, forms, subs, nResumeSubs, epochs,
                   cleanupLog>>
    /\ DiskFrame

\* upload-resume: the file name is made from the sanitized name and the clock,
\* then the handler awaits the bytes
UploadNames(u) ==
    /\ u \in diskCalls /\ u.kind = "upload" /\ u.stage = "mkdir"
    /\ diskCalls' = (diskCalls \ {u}) \cup
                        {[u EXCEPT !.stage = "named", !.dest = Filename(u.name, now, u.file)]}
    /\ UNCHANGED <<dirExists, stored, now, nDiskCalls, active, forms, subs, nResumeSubs,
                   epochs, cleanupLog>>
    /\ DiskFrame

\* upload-resume: writeFile(dest, bytes) creates or replaces the file and the
\* response carries absPath; without the directory it throws and the response
\* is a 500.  The caller pushes the path onto uploadedMembers, or throws out of
\* handleSubmit before anything is stored.
UploadWrites(u) ==
    /\ u \in diskCalls /\ u.kind = "upload" /\ u.stage = "named"
    /\ diskCalls' = diskCalls \ {u}
    /\ IF dirExists
       THEN /\ stored' = [p \in DOMAIN stored \cup {u.dest} |->
                             IF p = u.dest THEN u.id ELSE stored[p]]
            /\ subs' = [subs EXCEPT ![u.caller].uploaded =
                           Append(@, [dest |-> u.dest, upload |-> u.id,
                                      epoch |-> epochs[u.caller]])]
       ELSE /\ UNCHANGED stored
            /\ subs' = [subs EXCEPT ![u.caller] = NoSub]
    /\ UNCHANGED <<dirExists, now, nDiskCalls, active, forms, nResumeSubs, epochs, cleanupLog>>
    /\ DiskFrame

\* The upload request fails before the handler has done anything.
UploadRejected(u) ==
    /\ u \in diskCalls /\ u.kind = "upload" /\ u.stage = "received"
    /\ diskCalls' = diskCalls \ {u}
    /\ subs' = [subs EXCEPT ![u.caller] = NoSub]
    /\ UNCHANGED <<dirExists, stored, now, nDiskCalls, active, forms, nResumeSubs, epochs,
                   cleanupLog>>
    /\ DiskFrame

\* The loop is over: setTeamMembers(uploadedMembers) stores the paths, and the
\* members go to /api/process-team-data with them.
UploadsStored(c) ==
    /\ c \in active
    /\ subs[c].stage = "uploads"
    /\ Len(subs[c].uploaded) = Len(subs[c].members)
    /\ forms' = [forms EXCEPT ![c] = [m \in DOMAIN subs[c].members |->
                     [subs[c].members[m] EXCEPT !.path = subs[c].uploaded[m]]]]
    /\ subs' = [subs EXCEPT ![c].stage = "processing"]
    /\ UNCHANGED <<dirExists, stored, now, diskCalls, nDiskCalls, active, nResumeSubs,
                   epochs, cleanupLog>>
    /\ DiskFrame

\* process-team-data answers.  A failure ends the submission with the paths
\* still stored; a success posts to /api/cleanup-resumes and awaits it.
ProcessAnswers(c, ok) ==
    /\ c \in active
    /\ subs[c].stage = "processing"
    /\ IF ok
       THEN /\ subs' = [subs EXCEPT ![c].stage = "cleanup"]
            /\ diskCalls' = diskCalls \cup
                   {[id |-> nDiskCalls + 1, kind |-> "cleanup", caller |-> c,
                     name |-> <<>>, file |-> <<>>, stage |-> "received", dest |-> <<>>,
                     entries |-> 0, after |-> 0]}
            /\ nDiskCalls' = nDiskCalls + 1
       ELSE /\ subs' = [subs EXCEPT ![c] = NoSub]
            /\ UNCHANGED <<diskCalls, nDiskCalls>>
    /\ UNCHANGED <<dirExists, stored, now, active, forms, nResumeSubs, epochs, cleanupLog>>
    /\ DiskFrame

\* What the caller does with the response of cleanup-resumes: a submission
\* clears every resumePath and ends; any other caller just has the response.
CleanupReturns(k, response) ==
    IF k.caller \in Clients
    THEN /\ forms' = [forms EXCEPT ![k.caller] = ClearPaths(@)]
         /\ subs' = [subs EXCEPT ![k.caller] = NoSub]
         /\ epochs' = [epochs EXCEPT ![k.caller] = @ + 1]
         /\ UNCHANGED cleanupLog
    ELSE /\ cleanupLog' = Append(cleanupLog, response)
         /\ UNCHANGED <<forms, subs, epochs>>

\* cleanup-resumes: entries = await fs.readdir(resumesDir); without the
\* directory the handler answers { success, deleted: 0 } and creates nothing.
CleanupReads(k) ==
    /\ k \in diskCalls /\ k.kind = "cleanup" /\ k.stage = "received"
    /\ IF dirExists
       THEN /\ diskCalls' = (diskCalls \ {k}) \cup
                   {[k EXCEPT !.stage = "read", !.entries = Cardinality(DOMAIN stored)]}
            /\ UNCHANGED <<forms, subs, epochs, cleanupLog>>
       ELSE /\ diskCalls' = diskCalls \ {k}
            /\ CleanupReturns(k, [success |-> TRUE, deleted |-> 0, note |-> "No cache dir",
                                  after |-> k.after])
    /\ UNCHANGED <<dirExists, stored, now, nDiskCalls, active, nResumeSubs>>
    /\ DiskFrame

\* cleanup-resumes: await fs.rm(resumesDir, { recursive: true, force: true })
CleanupRemoves(k) ==
    /\ k \in diskCalls /\ k.kind = "cleanup" /\ k.stage = "read"
    /\ dirExists' = FALSE
    /\ stored' = EmptyDir
    /\ diskCalls' = (diskCalls \ {k}) \cup {[k EXCEPT !.stage = "removed"]}
    /\ UNCHANGED <<now, nDiskCalls, active, forms, subs, nResumeSubs, epochs, cleanupLog>>
    /\ DiskFrame

\* Counting what is in the directory when the handler answers.
Deleted_Remaining(k) == Cardinality(DOMAIN stored)

\* What cleanup-resumes reports as deleted: entries.length
Deleted(k) == k.entries

\* cleanup-resumes: await fs.mkdir(resumesDir, { recursive: true }) and the
\* response { success, deleted: entries.length }
CleanupRecreates(k) ==
    /\ k \in diskCalls /\ k.kind = "cleanup" /\ k.stage = "removed"
    /\ dirExists' = TRUE
    /\ diskCalls' = diskCalls \ {k}
    /\ CleanupReturns(k, [success |-> TRUE, deleted |-> Deleted(k), note |-> "",
                          after |-> k.after])
    /\ UNCHANGED <<stored, now, nDiskCalls, active, nResumeSubs>>
    /\ DiskFrame

\* Somebody posts to /api/cleanup-resumes outside any submission.
CleanupCalled ==
    /\ Len(cleanupLog) + Cardinality(CallsOf(0)) < MaxCleanupCalls
    /\ diskCalls' = diskCalls \cup
           {[id |-> nDiskCalls + 1, kind |-> "cleanup", caller |-> 0,
             name |-> <<>>, file |-> <<>>, stage |-> "received", dest |-> <<>>,
             entries |-> 0, after |-> Len(cleanupLog)]}
    /\ nDiskCalls' = nDiskCalls + 1
    /\ UNCHANGED <<dirExists, stored, now, active, forms, subs, nResumeSubs, epochs,
                   cleanupLog>>
    /\ DiskFrame

(***************************************************************************)
(* Specifications                                                          *)
(***************************************************************************)
\* Nothing else is running.
AuxIdle == AmplifyIdle /\ RoutesIdle /\ ResumesIdle

ViewIdle ==
    /\ roles = <<>>
    /\ assignmentsProp = <<>>
    /\ reportsProp = <<>>
    /\ debugProp = NoDebug
    /\ rows = <<>>
    /\ vpc = "idle"

EngineIdle ==
    /\ nRoles = 0
    /\ nMembers = 0
    /\ matrix = <<>>
    /\ unR = {}
    /\ unM = {}
    /\ assignment = {}
    /\ lastPick = NoPick
    /\ run = 1
    /\ firstResult = {}
    /\ reports = <<>>
    /\ epc = "idle"

\* The match operation on every request within the bounds, run twice.
Init == EngineInit(MaxRoles, MaxMembers) /\ ViewIdle /\ ClientInit /\ ServiceIdle /\ AuxIdle

Next ==
    \/ AssignStep
    \/ AssignReturn
    \/ BuildReportsStep
    \/ RunAgain

Spec == Init /\ [][Next]_vars

\* A request with its roles' titles, matched and shown by the results view.
ViewInit ==
    /\ EngineInit(MaxViewRoles, MaxViewMembers)
    /\ roles \in [1..nRoles -> [title : Titles, name : {Undefined}]]
    /\ assignmentsProp = <<>>
    /\ reportsProp = <<>>
    /\ debugProp = NoDebug
    /\ rows = <<>>
    /\ vpc = "idle"
    /\ ClientInit
    /\ ServiceIdle
    /\ AuxIdle

ViewNext ==
    \/ AssignStep
    \/ AssignReturn
    \/ BuildReportsStep
    \/ Respond
    \/ Render

SpecView == ViewInit /\ [][ViewNext]_vars

\* A request matched and shown, the response coming from the engine or, with
\* its candidates in any order, from any other producer.
RowsInit ==
    /\ EngineInit(MaxRowRoles, MaxRowMembers)
    /\ roles \in [1..nRoles -> [title : Titles, name : {Undefined}]]
    /\ assignmentsProp = <<>>
    /\ reportsProp = <<>>
    /\ debugProp = NoDebug
    /\ rows = <<>>
    /\ vpc = "idle"
    /\ ClientInit
    /\ ServiceIdle
    /\ AuxIdle

RowsNext ==
    \/ AssignStep
    \/ AssignReturn
    \/ BuildReportsStep
    \/ Respond
    \/ RespondAnyOrder
    \/ Render

SpecRows == RowsInit /\ [][RowsNext]_vars

\* The page from its first render, with every user event and every answer.
PageInit == EngineIdle /\ ViewIdle /\ ClientInit /\ ServiceIdle /\ AuxIdle

PageNext ==
    \/ SendChatMessage
    \/ ChatReplies
    \/ SendConfirmation
    \/ ExtractionSucceeds
    \/ ExtractionFails
    \/ EditTeamForm
    \/ SubmitTeam
    \/ UploadsDone
    \/ SubmissionFails
    \/ SubmissionProcessed
    \/ TeamProcessed
    \/ ProceedToTeamInput
    \/ BackToPlanning
    \/ ProceedToOverview
    \/ BackToTeam
    \/ BackToOverview
    \/ ChangeTopK
    \/ ProceedToMatch
    \/ MatchHandled
    \/ GoToMatchedFires
    \/ GoToOverviewFires

SpecPage == PageInit /\ [][PageNext]_vars

\* The team form from the first render of the page: specifications are
\* extracted, then the team is edited, grown, shrunk and submitted repeatedly.
TeamNext ==
    \/ SendConfirmation
    \/ ExtractionSucceeds
    \/ EditTeamForm
    \/ ClearEntry
    \/ AddMember
    \/ RemoveMember
    \/ SubmitTeamAgain
    \/ UploadsDone
    \/ SubmissionFails
    \/ SubmissionProcessed
    \/ TeamProcessed
    \/ ProceedToOverview
    \/ BackToTeam
    \/ GoToOverviewFires

SpecTeam == PageInit /\ [][TeamNext]_vars

\* The team form when every request of a submission returns or throws: a
\* submission in flight eventually takes its next step.
SubmitNext ==
    \/ SendConfirmation
    \/ ExtractionSucceeds
    \/ EditTeamForm
    \/ ClearEntry
    \/ SubmitTeamAgain
    \/ UploadsDone
    \/ SubmissionFails
    \/ SubmissionProcessed
    \/ TeamProcessed
    \/ GoToOverviewFires
    \/ BackToTeam

SpecSubmitLive ==
    /\ PageInit
    /\ [][SubmitNext]_vars
    /\ WF_vars(UploadsDone \/ SubmissionFails \/ SubmissionProcessed \/ TeamProcessed)

\* The page from its first render when the user returns to Planning and has
\* the specifications generated again, before, while or after the team is
\* submitted.
ReplanNext ==
    \/ SendConfirmationAgain
    \/ ExtractionSucceeds
    \/ ExtractionFails
    \/ EditTeamForm
    \/ SubmitTeam
    \/ UploadsDone
    \/ SubmissionFails
    \/ SubmissionProcessed
    \/ TeamProcessed
    \/ ProceedToTeamInput
    \/ BackToPlanning
    \/ ProceedToOverview
    \/ BackToTeam
    \/ GoToOverviewFires

SpecReplan == PageInit /\ [][ReplanNext]_vars

\* The planning chat from its first render: messages are typed and sent,
\* answers arrive in any order, and the user moves between Planning and Team
\* Input.
ChatNext ==
    \/ SendMessage
    \/ ChatAnswers
    \/ ExtractionAnswers
    \/ ExtractionRefused
    \/ ProceedToTeamInput
    \/ BackToPlanning

SpecChat == PageInit /\ [][ChatNext]_vars

\* The same chat when every request returns or throws: an outstanding
\* /api/chat or /api/extract-specifications request is eventually answered.
SpecChatLive ==
    /\ SpecChat
    /\ WF_vars(ChatAnswers)
    /\ WF_vars(ExtractionAnswers \/ ExtractionRefused)

\* Two match requests served concurrently by the match service.
ServiceStart == EngineIdle /\ ViewIdle /\ ClientInit /\ ServiceInit /\ AuxIdle

ServiceNext ==
    \/ \E q \in Requests : Validate(q)
    \/ \E q \in Requests, h \in Hashes : Embed(q, h)
    \/ \E f \in fetches : ProviderAnswers(f)
    \/ \E f \in fetches : ProviderTimesOut(f)
    \/ \E q \in Requests : Finish(q)

SpecService == ServiceStart /\ [][ServiceNext]_vars

\* One call of amplify on any arguments.
AmplifyStart ==
    EngineIdle /\ ViewIdle /\ ClientInit /\ ServiceIdle /\ AmplifyInit /\ RoutesIdle /\ ResumesIdle

AmplifyNext == AmplifyStep

SpecAmplify == AmplifyStart /\ [][AmplifyNext]_vars

\* One request to any of the routes.
RoutesStart ==
    EngineIdle /\ ViewIdle /\ ClientInit /\ ServiceIdle /\ AmplifyIdle /\ RoutesInit /\ ResumesIdle

RoutesNext == RouteResponds

SpecRoutes == RoutesStart /\ [][RoutesNext]_vars

\* One client submits its team again and again, changing resumes in between.
ResumesStart ==
    EngineIdle /\ ViewIdle /\ ClientInit /\ ServiceIdle /\ AmplifyIdle /\ RoutesIdle
        /\ ResumesInit({1}, MaxResumeMembers)

ResumesNext ==
    \/ \E c \in Clients :
          \/ SubmitResumes(c)
          \/ UploadLoop(c)
          \/ UploadsStored(c)
          \/ \E ok \in BOOLEAN : ProcessAnswers(c, ok)
          \/ \E m \in 1..MaxResumeMembers : ResumeChanged(c, m)
    \/ \E u \in diskCalls :
          \/ UploadMkdir(u)
          \/ UploadNames(u)
          \/ UploadWrites(u)
          \/ UploadRejected(u)
          \/ CleanupReads(u)
          \/ CleanupRemoves(u)
          \/ CleanupRecreates(u)

SpecResumes == ResumesStart /\ [][ResumesNext]_vars

\* Every client is open and they share the one directory, the clock running.
DiskStart ==
    EngineIdle /\ ViewIdle /\ ClientInit /\ ServiceIdle /\ AmplifyIdle /\ RoutesIdle
        /\ ResumesInit(Clients, MaxSharingMembers)

DiskNext == ResumesNext \/ Tick

SpecDisk == DiskStart /\ [][DiskNext]_vars

\* The files a directory can hold when the cleanup route is called.
CacheFiles == {Filename(e.name, t, e.file) : e \in MemberEntries, t \in 0..MaxTicks}

\* Calls of the cleanup route on any directory, absent or present, no upload running.
CleanupStart ==
    /\ EngineIdle /\ ViewIdle /\ ClientInit /\ ServiceIdle /\ AmplifyIdle /\ RoutesIdle
    /\ dirExists \in BOOLEAN
    /\ \E files \in SUBSET CacheFiles :
          /\ ~dirExists => files = {}
          /\ stored = [p \in files |-> 0]
    /\ now = 0
    /\ diskCalls = {}
    /\ nDiskCalls = 0
    /\ active = {}
    /\ forms = [c \in Clients |-> <<>>]
    /\ subs = [c \in Clients |-> NoSub]
    /\ nResumeSubs = [c \in Clients |-> 0]
    /\ epochs = [c \in Clients |-> 0]
    /\ cleanupLog = <<>>

CleanupNext ==
    \/ CleanupCalled
    \/ \E k \in diskCalls : CleanupReads(k) \/ CleanupRemoves(k) \/ CleanupRecreates(k)

SpecCleanup == CleanupStart /\ [][CleanupNext]_vars

(***************************************************************************)
(* Properties of the Assignment Solver and the Report Builder              *)
(***************************************************************************)

\* C1: the assignment never maps two different roles to the same member and
\* never maps one role to more than one member, whatever the roles, the
\* members and the score matrix.
AssignmentOneToOne ==
    \A p, q \in assignment : (p[1] = q[1] \/ p[2] = q[2]) => p = q

\* A match of at least two roles and two members has returned two pairs.
AssignmentOneToOneWitness ==
    /\ epc = "returned"
    /\ nRoles >= 2
    /\ nMembers >= 2
    /\ Cardinality(assignment) >= 2

\* C2: every iteration of the loop commits a pair whose score is at least the
\* score of every pair of a still-unassigned role and a still-unassigned
\* member, removes exactly that role and that member from consideration, and
\* the loop has ended exactly when no unassigned role or no unassigned member
\* is left.
GreedyPickIsMaximal ==
    /\ lastPick.role # 0 =>
          /\ lastPick.role \in lastPick.fromR
          /\ lastPick.member \in lastPick.fromM
          /\ \A r \in lastPick.fromR, m \in lastPick.fromM :
                matrix[r][m] <= matrix[lastPick.role][lastPick.member]
          /\ <<lastPick.role, lastPick.member>> \in assignment
          /\ unR = lastPick.fromR \ {lastPick.role}
          /\ unM = lastPick.fromM \ {lastPick.member}
    /\ epc # "assign" => (unR = {} \/ unM = {})
    /\ epc # "assign" => Cardinality(assignment) + Cardinality(unR) = nRoles
    /\ epc # "assign" => Cardinality(assignment) + Cardinality(unM) = nMembers

\* The loop has committed a pair that strictly beat another remaining pair,
\* and pairs were still left after it.
GreedyPickIsMaximalWitness ==
    /\ lastPick.role # 0
    /\ \E r \in lastPick.fromR, m \in lastPick.fromM :
          matrix[r][m] < matrix[lastPick.role][lastPick.member]
    /\ unR # {}
    /\ unM # {}

\* C3: when several remaining pairs share the maximum score, the committed
\* pair is the one whose role comes first in the input role order and, among
\* those, whose member comes first in the input member order.
TieBreakByInputOrder ==
    lastPick.role # 0 =>
        \A r \in lastPick.fromR, m \in lastPick.fromM :
            matrix[r][m] = matrix[lastPick.role][lastPick.member] =>
                \/ lastPick.role < r
                \/ (lastPick.role = r /\ lastPick.member <= m)

\* A pick made among tied pairs, some of another role and some of the same
\* role, after an earlier pick had already removed the first role.
TieBreakByInputOrderWitness ==
    /\ lastPick.role # 0
    /\ 1 \notin lastPick.fromR
    /\ \E r \in lastPick.fromR, m \in lastPick.fromM :
          /\ r # lastPick.role
          /\ matrix[r][m] = matrix[lastPick.role][lastPick.member]
    /\ \E m \in lastPick.fromM :
          /\ m # lastPick.member
          /\ matrix[lastPick.role][m] = matrix[lastPick.role][lastPick.member]

\* C4: a second run on the same roles, members and score matrix returns the
\* same assignment as the first.
RepeatedRunSameAssignment ==
    (run = 2 /\ epc # "assign") => assignment = firstResult

\* Both runs are over, on an input where tied maxima had to be broken.
RepeatedRunSameAssignmentWitness ==
    /\ run = 2
    /\ epc = "returned"
    /\ Cardinality(assignment) >= 2
    /\ \E r1, r2 \in 1..nRoles, m1, m2 \in 1..nMembers :
          /\ <<r1, m1>> # <<r2, m2>>
          /\ matrix[r1][m1] = matrix[r2][m2]
          /\ \A r \in 1..nRoles, m \in 1..nMembers : matrix[r][m] <= matrix[r1][m1]

Min(a, b) == IF a <= b THEN a ELSE b

\* C5: the number of assigned roles is min(number of roles, number of
\* members); surplus roles stay unassigned and their rows show 'Unassigned',
\* surplus members are assigned to nothing, and with no roles or no members
\* the assignment is empty.
AssignedCountIsMinAndSurplusShownUnassigned ==
    /\ epc = "returned" =>
          /\ Cardinality({r \in 1..nRoles : IsAssigned(assignment, r)})
                = Min(nRoles, nMembers)
          /\ Cardinality({m \in 1..nMembers : \E p \in assignment : p[2] = m})
                = Min(nRoles, nMembers)
          /\ (nRoles = 0 \/ nMembers = 0) => assignment = {}
    /\ vpc = "rendered" =>
          \A r \in 1..nRoles :
              ~IsAssigned(assignment, r) => rows[r].shown = "Unassigned"

(***************************************************************************)
(* Properties of the page's match handler and of the match service         *)
(***************************************************************************)

\* C7: a match request with a failed required embedding fails as a whole and
\* returns no assignment; on the client a failed match request (non-OK
\* response, success = false or unreadable body) leaves roleAssignments,
\* roleReports and matchDebug as they were and does not move the phase to
\* MATCHED: the stored results are always those of the last successful
\* response, and MATCHED is entered, or about to be entered, only after a
\* successful response has been stored.
FailedMatchLeavesResults ==
    /\ ~partialReturned
    /\ roleAssignments = lastGood
    /\ roleReports = lastGood
    /\ matchDebug = lastGood
    /\ (currentPhase = MATCHED \/ timers.goToMatched > 0) => lastGood # 0

\* Two match requests were answered: the first succeeded, the second failed,
\* and the page shows, in MATCHED, the results of the first.
FailedMatchLeavesResultsWitness ==
    /\ nMatchRequests = 2
    /\ matchRequests = {}
    /\ lastGood = 1
    /\ roleAssignments = 1
    /\ currentPhase = MATCHED

\* C8: at most one upstream fetch per content hash is in flight at any time,
\* every embed call that awaits a hash awaits that one fetch, and all calls
\* that awaited a fetch received the same result of it.
AtMostOneFetchPerHash ==
    /\ \A f, g \in fetches : f.hash = g.hash => f = g
    /\ \A w \in waiters :
          \E f \in fetches : f.id = w.fetch /\ f.hash = w.hash
    /\ \A q1, q2 \in DOMAIN results :
          \A r1 \in results[q1], r2 \in results[q2] :
              r1.fetch = r2.fetch =>
                  (r1.hash = r2.hash /\ r1.outcome = r2.outcome)

\* Two requests await the same hash at the same time, on one fetch.
AtMostOneFetchPerHashWitness ==
    \E w1, w2 \in waiters :
        /\ w1.request # w2.request
        /\ w1.hash = w2.hash
        /\ w1.fetch = w2.fetch
        /\ Cardinality(fetches) = 1

\* C9: a fetch whose provider keeps timing out is attempted at most
\* 1 + MaxRetries times; an embed call that does not get a provider's vector
\* raises EmbeddingError, exactly when the retries are used up, and a call
\* that returns a vector returns one the provider answered with.
RetriesAreBounded ==
    /\ \A f \in fetches : f.attempts <= MaxRetries + 1
    /\ \A q \in DOMAIN results : \A r \in results[q] :
          /\ r.outcome \in {"vector", "EmbeddingError"}
          /\ r.outcome = "EmbeddingError" => r.attempts = MaxRetries + 1
          /\ r.outcome = "vector" =>
                [hash |-> r.hash, fetch |-> r.fetch] \in embedCache

\* An embed call has raised EmbeddingError after the last retry timed out, and
\* its request has failed.
RetriesAreBoundedWitness ==
    \E q \in DOMAIN results :
        /\ stage[q] = "failed"
        /\ \E r \in results[q] :
              r.outcome = "EmbeddingError" /\ r.attempts = MaxRetries + 1

\* C10: a request with invalid tuning input (topK <= 0, negative temperature
\* or malformed anchor weights) issues no embedding call: it is rejected
\* from its initial stage, with nothing issued, awaited or returned.
InvalidConfigNeverEmbeds ==
    \A q \in DOMAIN config :
        (config[q].topK <= 0 \/ config[q].temperature < 0 \/ ~config[q].anchorsOk) =>
            /\ stage[q] \in {"new", "rejected"}
            /\ issued[q] = {}
            /\ results[q] = {}
            /\ \A w \in waiters : w.request # q

\* A request with topK = 0 was rejected while the other request, valid, has
\* issued embedding calls.
InvalidConfigNeverEmbedsWitness ==
    \E q, v \in DOMAIN config :
        /\ config[q].topK = 0
        /\ stage[q] = "rejected"
        /\ issued[v] # {}

(***************************************************************************)
(* Properties of the amplifier, the reports and the results view           *)
(***************************************************************************)

\* C11: with the domain boost disabled, or with an empty anchor set, amplify
\* returns a matrix equal to its input matrix in every cell.
AmplifyDisabledIsIdentity ==
    (apc = "returned" /\ (~ampArgs.enabled \/ ampArgs.anchors = {})) =>
        /\ DOMAIN ampResult = DOMAIN ampArgs.matrix
        /\ \A r \in DOMAIN ampArgs.matrix :
              /\ DOMAIN ampResult[r] = DOMAIN ampArgs.matrix[r]
              /\ \A m \in DOMAIN ampArgs.matrix[r] :
                    ampResult[r][m] = ampArgs.matrix[r][m]

\* amplify has returned from a call with the boost enabled, a strength and a
\* nonzero score to boost, but no anchors.
AmplifyDisabledIsIdentityWitness ==
    /\ apc = "returned"
    /\ ampArgs.enabled
    /\ ampArgs.anchors = {}
    /\ ampArgs.strength > 0
    /\ \E r \in DOMAIN ampArgs.matrix : \E m \in DOMAIN ampArgs.matrix[r] :
          ampArgs.matrix[r][m] > 0

\* The sum of a sequence of fractions.
RECURSIVE FracSum(_, _)
FracSum(q, n) ==
    IF n = 0 THEN [num |-> 0, den |-> 1]
    ELSE LET rest == FracSum(q, n - 1)
         IN  [num |-> rest.num * q[n].den + q[n].num * rest.den,
              den |-> rest.den * q[n].den]

\* The candidates the view was given for a row.
GivenCandidates(row) ==
    IF row.report = 0 THEN <<>> ELSE reportsProp[row.report].candidates

\* C12: the candidates of every report are in non-increasing soft-score
\* order, and so are the candidate rows the results view renders, whatever
\* the order they were given in; candidates given already sorted are shown
\* in exactly the order given.
CandidatesInSoftOrder ==
    /\ epc = "returned" =>
          \A r \in DOMAIN reports :
              \A i, j \in DOMAIN reports[r].candidates :
                  i < j => ~FracLess(reports[r].candidates[i].soft_score,
                                     reports[r].candidates[j].soft_score)
    /\ vpc = "rendered" =>
          \A idx \in DOMAIN rows :
              LET shown == rows[idx].candidates
                  given == GivenCandidates(rows[idx])
                  soft  == Soft(given, TemperatureOf(debugProp))
              IN  /\ Len(shown) = Len(given)
                  /\ {shown[i].pos : i \in DOMAIN shown} = DOMAIN given
                  /\ \A i \in DOMAIN shown :
                        /\ shown[i].member = given[shown[i].pos].member
                        /\ shown[i]._soft = soft[shown[i].pos]
                  /\ \A i, j \in DOMAIN shown :
                        i < j => ~FracLess(shown[i]._soft, shown[j]._soft)
                  /\ (\A i, j \in DOMAIN given : i < j => ~FracLess(soft[i], soft[j]))
                        => \A i \in DOMAIN shown : shown[i].pos = i

\* A row was rendered from candidates given lowest soft score first.
CandidatesInSoftOrderWitness ==
    /\ vpc = "rendered"
    /\ \E idx \in DOMAIN rows :
          /\ Len(rows[idx].candidates) >= 2
          /\ rows[idx].candidates[1].pos = 2
          /\ FracLess(rows[idx].candidates[2]._soft, rows[idx].candidates[1]._soft)

NoStackTraceInFailureResponse ==
    (rpc = "responded" /\ routeResponse.status >= 400) =>
        /\ DOMAIN routeResponse.body \subseteq {"success", "error", "status"}
        /\ \A k \in DOMAIN routeResponse.body :
              \A e \in Thrown \cup {"SyntaxError"} :
                  routeResponse.body[k] # StackOf(e)

NavigationStep ==
    \/ ProceedToTeamInput
    \/ BackToPlanning
    \/ ProceedToOverview
    \/ BackToTeam
    \/ BackToOverview
    \/ GoToMatchedFires
    \/ GoToOverviewFires

\* C16: phase navigation changes only currentPhase: the chat, the team form,
\* finalSpecifications, finalMembers, finalRoles, the dirty and ready flags,
\* topK and the stored match results are the same after any navigation step.
NavigationChangesOnlyPhase ==
    [][NavigationStep =>
          /\ UNCHANGED <<finalSpecifications, finalMembers, finalRoles>>
          /\ UNCHANGED <<planningDirty, specsReady, teamDirty, teamReady, topK>>
          /\ UNCHANGED <<roleAssignments, roleReports, matchDebug>>
          /\ UNCHANGED <<chatLoading, extractions, nExtractions>>
          /\ UNCHANGED <<formDirty, derivedRoles, submission, nSubmissions, teamSize, incomplete, teamLog>>
          /\ UNCHANGED <<matchRequests, nMatchRequests>>]_vars

\* The user came back to the overview from stored match results.
NavigationChangesOnlyPhaseWitness ==
    /\ currentPhase = OVERVIEW
    /\ roleAssignments # 0
    /\ timers.goToMatched = 0
    /\ matchRequests = {}
    /\ nMatchRequests = 1

\* C17: in every team submission /api/cleanup-resumes is requested exactly
\* once if /api/process-team-data returned success and not at all otherwise;
\* the request is issued with the handling of that response, and the parent is
\* notified (onTeamProcessed) only when the cleanup has returned or failed.
CleanupOncePerProcessedSubmission ==
    /\ teamLog.cleanups = teamLog.processed
    /\ teamLog.notified + (IF submission.stage = "cleanup" THEN 1 ELSE 0)
          = teamLog.cleanups
    /\ submission.stage = "cleanup" => finalMembers # submission.membersOut

\* Two submissions have ended, one processed and one failed.
CleanupOncePerProcessedSubmissionWitness ==
    /\ submission = NoSubmission
    /\ nSubmissions = 2
    /\ teamLog.processed = 1
    /\ teamLog.notified = 1

\* C19: whenever the team is marked ready for the overview, the roles handed
\* to the overview are as many as the processed members: one role per member.
TeamReadyMeansRolePerMember ==
    teamReady => finalRoles.n = finalMembers.n

(***************************************************************************)
(* Properties of the planning chat                                         *)
(***************************************************************************)

\* A step in which the user's message joins the transcript.
MessageSent ==
    /\ Len(messages') = Len(messages) + 1
    /\ messages'[Len(messages')].role = "user"

\* What such a step sent, and the requests it issued.
SentContent == messages'[Len(messages')].content
IssuedCalls == chatCalls' \ chatCalls

SpecificationsCoverEveryMessage ==
    CanProceedPlanning =>
        \A i \in DOMAIN messages :
            messages[i].role = "user" =>
                i <= Len(extractedFrom) /\ extractedFrom[i] = messages[i]

(***************************************************************************)
(* Properties of the page under overlapping requests                       *)
(***************************************************************************)

\* C21: the application enters the OVERVIEW phase, and the MATCHED phase,
\* only in a state where teamReady is true and neither planningDirty nor
\* teamDirty is true, whatever the user does while a team submission or a
\* match request is in flight.
PhasesEnteredOnlyWhenReadyAndClean ==
    [][(/\ currentPhase' # currentPhase
        /\ currentPhase' \in {OVERVIEW, MATCHED})
          => (teamReady' /\ ~planningDirty' /\ ~teamDirty')]_vars

\* C22: at most one team submission pipeline (uploads, role derivation,
\* processing, cleanup) is in flight at any time, and while one is in flight a
\* submit event starts nothing.
AtMostOneSubmissionInFlight ==
    /\ nSubmissions - (teamLog.failed + teamLog.notified)
          = (IF submission = NoSubmission THEN 0 ELSE 1)
    /\ submission # NoSubmission =>
          /\ submission.id = nSubmissions
          /\ ~ENABLED SubmitTeamAgain

\* A second submission is in flight on a valid form, after the first ended.
AtMostOneSubmissionInFlightWitness ==
    /\ nSubmissions = 2
    /\ submission.stage = "requests"
    /\ IsValid(teamSize, incomplete)
    /\ currentPhase = TEAM_INPUT

\* C25: a submission sends /api/extract-roles and /api/process-team-data only
\* if the form had at least one member, every member had a name and a resume
\* file, and the uploads succeeded; a form that fails the validation starts
\* no submission, and when an upload fails nothing more is sent, the parent is
\* not notified and the team's ready state stays as it was.
RequestsOnlyForValidUploadedTeam ==
    /\ [](/\ submission # NoSubmission =>
                submission.members > 0 /\ submission.incomplete = 0
          /\ ~IsValid(teamSize, incomplete) => ~ENABLED SubmitTeamAgain)
    /\ [][/\ submission'.stage = "requests" /\ submission.stage # "requests"
                => submission.stage = "uploads"
          /\ (submission.stage = "uploads" /\ submission' = NoSubmission) =>
                /\ UNCHANGED <<finalMembers, finalRoles, finalSpecifications>>
                /\ UNCHANGED <<teamReady, teamDirty, derivedRoles, timers>>
                /\ teamLog'.notified = teamLog.notified
                /\ teamLog'.processed = teamLog.processed
                /\ teamLog'.cleanups = teamLog.cleanups]_vars

\* An upload of the second submission failed and left an earlier result alone;
\* the form has since got an entry without a name.
RequestsOnlyForValidUploadedTeamWitness ==
    /\ submission = NoSubmission
    /\ teamLog.failed = 1 /\ teamLog.notified = 1
    /\ teamReady
    /\ finalMembers.of = 1
    /\ ~IsValid(teamSize, incomplete)

\* C23: once a submission has completed, the members the overview would get
\* are offered for Proceed (teamReady, no dirty flag) only while the form
\* holds as many entries as were processed: an edit made while the
\* submission was in flight is still in the form and keeps the team dirty.
OfferedMembersMatchForm ==
    (submission = NoSubmission /\ CanProceedTeamInput) => finalMembers.n = teamSize

\* C24: the assignments, reports and debug payload the page stores are those
\* of the most recently issued match request, in whatever order the responses
\* of overlapping requests arrive: a stored result is never replaced by the
\* result of a request issued before the one it came from.
ResultsOfLatestMatchRequest ==
    [][/\ roleAssignments' # roleAssignments => roleAssignments' > roleAssignments
       /\ roleReports' # roleReports => roleReports' > roleReports
       /\ matchDebug' # matchDebug => matchDebug' > matchDebug]_vars

\* A step in which the form calls onTeamProcessed.
NotifiesParent == teamLog'.notified # teamLog.notified

\* What such a step does, apart from teamDirty: it ends the cleanup stage of
\* a processed submission, counts as one notification, hands over ready =
\* (roles non-empty and as many processed members as were submitted), which
\* becomes teamReady, and defers one goToOverview exactly if ready is true.
NotificationOutcome ==
    /\ submission.stage = "cleanup"
    /\ teamLog'.notified = teamLog.notified + 1
    /\ teamReady' = (finalRoles'.n > 0 /\ finalMembers'.n = submission.members)
    /\ teamReady' = submission.ready
    /\ timers'.goToOverview = timers.goToOverview + (IF teamReady' THEN 1 ELSE 0)
    /\ finalMembers' = submission.membersOut
    /\ finalRoles' = submission.roles

\* Every processed submission is notified once: the notifications lag the
\* successful responses by one exactly while the cleanup is awaited.
NotifiedOncePerProcessed ==
    /\ teamLog.processed - teamLog.notified =
          (IF submission.stage = "cleanup" THEN 1 ELSE 0)
    /\ submission.stage = "cleanup" =>
          submission.ready = (/\ submission.roles.n > 0
                              /\ submission.membersOut.n = submission.members)

RolesOnlyFromOwnSubmission ==
    /\ finalRoles # NoRoles => finalRoles.of = finalMembers.of
    /\ teamReady => finalRoles.of = finalMembers.of

\* C29: from the moment a user planning message is sent until a spec
\* extraction succeeds (planningDirty holds exactly then), finalSpecifications
\* is null, specsReady is false and the Planning Proceed control is disabled.
PlanningInvalidatedUntilExtraction ==
    planningDirty => (/\ finalSpecifications = 0
                      /\ ~specsReady
                      /\ ~CanProceedPlanning)

\* A step in which a spec extraction succeeds.
ExtractionSuccessStep == finalSpecifications' \in (extractions \ extractions')

\* C28: whenever 'Proceed to Overview' or 'Proceed to Role Matching' is
\* enabled, finalRoles were derived from the specifications now stored:
\* a successful extraction stores specifications no role was derived from
\* yet, so it never leaves one of those controls enabled.
RegenerationDisablesProceed ==
    [][ExtractionSuccessStep =>
          (~CanProceedTeamInput' /\ ~CanProceedOverview')]_vars

\* C30: specsReady and planningDirty are never both true; whenever specsReady
\* is true finalSpecifications is the non-null result of the latest
\* successful extraction (while specsReady holds, only a successful
\* extraction changes finalSpecifications); and the automatic advance to
\* TEAM_INPUT lands in a state where the Planning canProceed condition holds.
SpecsReadyMeansLatestExtraction ==
    /\ [](/\ ~(specsReady /\ planningDirty)
          /\ specsReady => finalSpecifications # 0)
    /\ [][/\ (specsReady' /\ finalSpecifications' # finalSpecifications)
                => ExtractionSuccessStep
          /\ ExtractionSuccessStep =>
                /\ specsReady'
                /\ currentPhase' = TEAM_INPUT
                /\ CanProceedPlanning']_vars

(***************************************************************************)
(* Frame of the planning handler, the Top-K control, the chat's loading    *)
(* guard                                                                   *)
(***************************************************************************)

\* A step in which the chat reports a user message to the page.
PlanningMessageStep == SendChatMessage \/ SendConfirmation

\* C36: handling a user planning message sets planningDirty, clears
\* specsReady and finalSpecifications, and changes nothing else of the page:
\* teamReady, teamDirty, finalMembers, finalRoles, currentPhase, topK and the
\* stored match results are as before.
PlanningMessageChangesOnlyPlanning ==
    [][PlanningMessageStep =>
          /\ planningDirty' /\ ~specsReady' /\ finalSpecifications' = 0
          /\ UNCHANGED <<teamReady, teamDirty, finalMembers, finalRoles>>
          /\ UNCHANGED <<currentPhase, topK>>
          /\ UNCHANGED <<roleAssignments, roleReports, matchDebug>>]_vars

\* A planning message was handled on a page that holds a ready team, a
\* changed Top-K and stored match results.
PlanningMessageChangesOnlyPlanningWitness ==
    /\ planningDirty /\ finalSpecifications = 0
    /\ chatLoading
    /\ currentPhase = PLANNING
    /\ teamReady /\ finalMembers.n > 0 /\ finalRoles.n > 0
    /\ topK # 10
    /\ roleAssignments # 0

\* C37: in every reachable state topK is an integer between 1 and 100
\* (initially 10), so every match request carries a topK in that range; a
\* typed number is clamped into [1, 100] (kept if it is in the range), and
\* empty or non-numeric input yields 10.
TopKWithinRange ==
    /\ topK \in 1..100
    /\ nSubmissions = 0 => topK = 10
    /\ \A value \in TopKInputs :
          LET k == TopKFromInput(value)
          IN  /\ k \in 1..100
              /\ value.kind \in {"empty", "text"} => k = 10
              /\ value.kind = "int" =>
                    k = (IF value.n < 1 THEN 1
                         ELSE IF value.n > 100 THEN 100 ELSE value.n)

\* A match request was issued after the Top-K control had been set to an
\* out-of-range number, which was clamped.
TopKWithinRangeWitness ==
    /\ topK = 100
    /\ matchRequests # {}
    /\ \E q \in matchRequests : q.id = nMatchRequests

\* The /api/chat requests that are outstanding.
OutstandingChat == {c \in chatCalls : c.api = "/api/chat"}

\* C33: while a /api/chat request is in flight (isLoading is true exactly
\* then) sendMessage accepts no further message, neither a chat message nor
\* the confirmation phrase; blank input is never accepted; hence at most one
\* /api/chat request is outstanding at any time.
NoMessageWhileChatInFlight ==
    /\ [](/\ chatLoading <=> OutstandingChat # {}
          /\ Cardinality(OutstandingChat) <= 1
          /\ chatLoading => ~ENABLED SendMessage)
    /\ [][/\ MessageSent =>
                /\ ~chatLoading
                /\ \E i \in DOMAIN SentContent : SentContent[i] \notin Whitespace
          /\ chatLoading => chatCalls' \subseteq chatCalls]_vars

\* A reply is awaited after the first message, on the Planning phase, with
\* room for another message: nothing but isLoading keeps it from being sent.
NoMessageWhileChatInFlightWitness ==
    /\ chatLoading
    /\ currentPhase = PLANNING
    /\ UserMessages(messages) < MaxUserMessages
    /\ Cardinality(OutstandingChat) = 1

\* The model messages appended after the greeting.
ModelReplies == Len(messages) - UserMessages(messages) - Len(defaultMessages)

\* C34: every accepted user message is eventually followed by exactly one
\* appended model message (reply, acknowledgement or apology): the replies
\* are as many as the answered requests, never more, and the k-th accepted
\* message leads to a k-th reply; and isLoading, set by a /api/chat request,
\* eventually returns to false whether the request succeeded or failed.
EveryMessageGetsOneReply ==
    /\ [](ModelReplies = UserMessages(messages) - Cardinality(chatCalls))
    /\ \A k \in 1..MaxUserMessages :
          (UserMessages(messages) >= k) ~> (ModelReplies >= k)
    /\ chatLoading ~> ~chatLoading

\* Two messages were accepted and answered, one of them with an apology, and
\* isLoading is false again.
EveryMessageGetsOneReplyWitness ==
    /\ UserMessages(messages) = 2
    /\ ModelReplies = 2
    /\ ~chatLoading
    /\ \E i \in DOMAIN messages :
          messages[i].content = <<"Sorry, I ran into an error. Please try again.">>

\* C35: every submission that passed validation eventually ends with the
\* in-flight guard released (isSubmitting false), whichever step fails or
\* succeeds, provided every request returns or throws; a later submit of a
\* valid form is then accepted again.
SubmissionEventuallyEnds ==
    /\ \A id \in 1..MaxTeamSubmissions :
          (submission.id = id) ~> (submission = NoSubmission /\ nSubmissions >= id)
    /\ []((/\ submission = NoSubmission
           /\ currentPhase = TEAM_INPUT
           /\ IsValid(teamSize, incomplete)
           /\ nSubmissions < MaxTeamSubmissions) => ENABLED SubmitTeamAgain)

\* A submission failed, a later one was accepted and processed, and the
\* guard is released again.
SubmissionEventuallyEndsWitness ==
    /\ submission = NoSubmission
    /\ nSubmissions = 2
    /\ teamLog.failed = 1
    /\ teamLog.notified = 1
    /\ finalMembers.of = 2

(***************************************************************************)
(* The rows of the results view                                            *)
(***************************************************************************)

\* C38: each role row shows exactly the member the assignment maps to that
\* role (or 'Unassigned') and draws from that role's own report; given the
\* one-to-one assignment, no member is shown as assigned in two role rows,
\* also when two roles share a title.
RowsShowOwnMemberAndReport ==
    vpc = "rendered" =>
        /\ \A r \in 1..nRoles :
              /\ rows[r].shown = (IF IsAssigned(assignment, r)
                                  THEN NameOf(Winner(assignment, r))
                                  ELSE "Unassigned")
              /\ rows[r].candidates =
                    CandidateRows(reportsProp[r].candidates, TemperatureOf(debugProp))
        /\ \A r1, r2 \in 1..nRoles :
              (r1 # r2 /\ rows[r1].shown = rows[r2].shown)
                 => rows[r1].shown = "Unassigned"

(***************************************************************************)
(* Properties of the resume cache                                          *)
(***************************************************************************)

\* The cleanup calls that end in this step, and the response of the one that does.
CleanupEnding ==
    {k \in diskCalls : /\ k.kind = "cleanup" /\ k.caller = 0
                       /\ \A k2 \in diskCalls' : k2.id # k.id}

LastCleanupResponse == cleanupLog[Len(cleanupLog)]

\* C39: a successful call of the cleanup route, no upload running, leaves the
\* directory existing and empty and reports as deleted the number of entries
\* the directory held when the handler read it; with no directory it reports
\* success with deleted = 0 and creates nothing; and a call made after another
\* call has returned reports deleted = 0.
CleanupEmptiesAndCounts ==
    [][/\ \A k \in diskCalls :
             (k.kind = "cleanup" /\ k.stage = "received" /\ dirExists
                 /\ [k EXCEPT !.stage = "read", !.entries = Cardinality(DOMAIN stored)]
                        \in diskCalls')
                 => UNCHANGED <<dirExists, stored, cleanupLog>>
       /\ \A k \in CleanupEnding :
             LET r == LastCleanupResponse'
             IN /\ Len(cleanupLog') = Len(cleanupLog) + 1
                /\ r.success
                /\ IF k.stage = "received"
                   THEN /\ ~dirExists /\ ~dirExists'
                        /\ stored' = stored /\ DOMAIN stored = {}
                        /\ r.deleted = 0
                   ELSE /\ r.deleted = k.entries
                        /\ dirExists' /\ DOMAIN stored' = {}
                /\ k.after >= 1 => r.deleted = 0]_vars

CleanupEmptiesAndCountsWitness ==
    /\ Len(cleanupLog) = 2
    /\ cleanupLog[1].deleted = 2 /\ cleanupLog[1].after = 0
    /\ cleanupLog[2].deleted = 0 /\ cleanupLog[2].after = 1
    /\ dirExists /\ DOMAIN stored = {}
    /\ diskCalls = {}

\* C40: no successful upload replaces the stored file of another successful
\* upload that has not been cleaned up: a file in the directory keeps the
\* content the upload that created it wrote, as long as it is there.
UploadsNeverOverwrite ==
    [][\A p \in DOMAIN stored \cap DOMAIN stored' : stored'[p] = stored[p]]_vars

\* C32: a resume file whose upload succeeded stays on disk until the
\* process-team-data request that references it has completed: while a
\* submission is uploading or awaiting process-team-data, every path it has
\* collected names a file that is in the directory.
UploadedFilesStayUntilProcessed ==
    \A c \in active :
        subs[c].stage \in {"uploads", "processing"} =>
            \A i \in DOMAIN subs[c].uploaded : subs[c].uploaded[i].dest \in DOMAIN stored

\* The upload requests that start in this step.
UploadsStarting == {u \in diskCalls' \ diskCalls : u.kind = "upload" /\ u.stage = "received"}

\* C31: within one client, every resumePath sent to process-team-data names a
\* file uploaded after that client's most recent cleanup.  A stored resumePath
\* is never older than the client's last cleanup; the paths of a processing
\* request are all set and none is older; the step that ends a cleanup leaves
\* no resumePath stored; and a member whose resumePath is set when the
\* submission starts is not uploaded again, its path is sent as it is.
ResumePathsAreFresh ==
    /\ [](\A c \in active :
            /\ \A m \in DOMAIN forms[c] :
                  forms[c][m].path # NoPath => forms[c][m].path.epoch = epochs[c]
            /\ subs[c].stage = "processing" =>
                  /\ Len(subs[c].uploaded) = Len(subs[c].members)
                  /\ \A m \in DOMAIN subs[c].uploaded :
                        /\ subs[c].uploaded[m] # NoPath
                        /\ subs[c].uploaded[m].epoch = epochs[c]
            /\ subs[c].stage \in {"uploads", "processing"} =>
                  \A m \in DOMAIN subs[c].uploaded :
                      subs[c].members[m].path # NoPath =>
                          subs[c].uploaded[m] = subs[c].members[m].path)
    /\ [][/\ \A c \in active :
               epochs'[c] # epochs[c] =>
                   \A m \in DOMAIN forms'[c] : forms'[c][m].path = NoPath
          /\ \A u \in UploadsStarting :
               subs[u.caller].members[Len(subs[u.caller].uploaded) + 1].path = NoPath]_vars

\* The second submission after a successful first one and a changed resume
\* after a failed one: member 1 is sent with a path uploaded after the cleanup.
ResumePathsAreFreshWitness ==
    /\ subs[1].stage = "processing"
    /\ epochs[1] = 1
    /\ nResumeSubs[1] = 2
    /\ \A m \in DOMAIN subs[1].uploaded :
          subs[1].uploaded[m].epoch = 1 /\ subs[1].uploaded[m].dest \in DOMAIN stored

=============================================================================
